---- MODULE Spec2Model ----
(***************************************************************************)
(* A model of the frame pipeline of infer-server: the bounded drop-oldest  *)
(* work queue, the multi-model frame result collector, the inference       *)
(* workers with their completion sink, and the per-stream JPEG ring cache. *)
(* Each component has its own specification over the shared variables:     *)
(*   SpecQueue      BoundedQueue<int> used by producers and consumers      *)
(*   SpecCollector  one FrameResultCollector and its add_result callers    *)
(*   SpecEngine     pipeline submit -> queue -> workers -> sink            *)
(*   SpecCache      ImageCache under a sequence of calls                   *)
(*   SpecPipeline   one stream: its pipeline thread and the manager calls  *)
(*   SpecManager    two streams and the manager's stop calls               *)
(***************************************************************************)
EXTENDS Integers, Sequences, FiniteSets, TLC

VARIABLES
    task_queue_,   \* BoundedQueue: [capacity_, queue_, stopped_, dropped_count_]
    qpc,           \* consumer -> "idle" | "waiting" (blocked in pop's wait_for)
    qNext,         \* the next item a producer pushes (items are numbered in push order)
    qPushed,       \* history: number of push calls that returned true
    qPopped,       \* history: the items returned by pop / try_pop, in return order
    qDiscarded,    \* history: TRUE once clear() or reset() has been called
    qOnlyPush,     \* history: TRUE while every call so far was a successful push
    qAtStop,       \* history: the consumers blocked in pop when stop() was last called
                   \*          whose pop has not returned since
    lastOp,        \* the call that made the last step: [op, who, arg, ret]
    collectors,    \* frame -> its FrameResultCollector [total_models_, result_, completed_], or nullopt
    cRet,          \* caller -> [called, ret]: whether its add_result call was made, and what it returned
    initialized_,  \* InferenceEngine::initialized_
    sdpc,          \* shutdown(): 0 = not running, k = stopping worker k, NumWorkers + 1 = workers
                   \*   joined, + 2 = workers_ cleared, + 3 = publisher shut down, + 4 = models unloaded
    wpc,           \* worker -> "none" (not created) | "idle" (loop head) | "waiting" (in pop)
                   \*           | "task" (popped a task) | "emit" (holds a completed result) | "exited"
    wtask,         \* worker -> the task it popped (optional)
    wout,          \* worker -> the completed FrameResult it is about to forward (optional)
    stop_requested_,   \* worker -> InferWorker::stop_requested_
    processed_count_,  \* worker -> InferWorker::processed_count_
    num_models,    \* the stream's number of model bindings (config.models.size())
    pframe,        \* pipeline: frame_id of the last decoded frame taken through the full path
    pmodel,        \* pipeline: index of the binding to submit next for that frame, 0 = between frames
    sink,          \* the results handed to on_result_complete, in order: [result, by]
    fate,          \* history: <<frame, model>> -> what became of that task
    pub_initialized_,  \* ZmqPublisher::initialized_ of the engine's zmq_pub_
    models_,       \* ModelManager::models_: the loaded models (a model is named by its binding index)
    contexts_,     \* worker -> InferWorker::contexts_: the models it holds a context of
    sdBusy,        \* history: TRUE once a worker finished a task during the present shutdown() call
    duration_sec_,     \* ImageCache::duration_sec_
    max_memory_bytes_, \* ImageCache::max_memory_bytes_
    caches_,       \* ImageCache::caches_: stream id -> the StreamCache it points to, NoRing if absent
    rings,         \* the StreamCache objects: reference -> [frames, memory_bytes]
    total_memory_, \* ImageCache::total_memory_
    cpc,           \* cache caller -> "idle" | "got" | "pushed" | "check" | "evict" (inside add_frame)
    cframe,        \* cache caller -> the frame of its add_frame call (optional)
    cref,          \* cache caller -> the StreamCache its add_frame call holds, NoRing if none
    cevict,        \* cache caller -> evict_count of its evict_global_memory call
    cAdds,         \* history: number of add_frame calls made
    inserted,      \* history: stream id -> the frames added to its present ring, in order
    mono,          \* history: stream id -> TRUE while those frames came in non-decreasing timestamp order
    has_ffmpeg,    \* the build: TRUE when HAS_FFMPEG is defined
    streams_,      \* StreamManager::streams_: stream id -> its StreamContext
    thr,           \* stream id -> its pipeline thread: [pc, local_frame_count, backoff_sec, is_open_]
                   \*   pc: "none" (no joinable thread) | "start" | "loop" | "open" | "backoff_open"
                   \*       | "decode" | "close" | "backoff_decode" | "finish" | "exited"
    feed,          \* stream id -> how many more frames its source delivers
    faults,        \* stream id -> how many more times an open or a decode of it fails
    mpc,           \* the manager's caller: [op, pending, live, last]
    frame_skips,   \* the frame_skip values the configurations passed to add_stream have
    hist,          \* history of the present thread of a stream: [sessions, full, k, fails, ids,
                   \*   i, took_full]: i frames were decoded in the open session, the last
                   \*   of them on the full path (took_full) or on the skip path
    saved,         \* the persisted stream list: the configurations last written to streams_save_path
    rpc,           \* caller of add_stream / remove_stream -> [pc, op, arg, ctx, snap]
                   \*   pc: "idle" | "join" | "uncache" | "save" | "write"
    rRemoved,      \* history: the ids whose remove_stream has returned true, no add_stream of
                   \*          the id having inserted it since
    ctx_of,        \* InferWorker::contexts_ with its values: worker -> model path -> handle (0: no entry)
    dup_ctxs,      \* the contexts rknn_dup_context has created: records [ctx, worker, model]
    lpc,           \* the caller of load_models: [pc, model, worker, ctx]
                   \*   pc: "idle" | "find" | "create" | "assign"
    gpc,           \* worker thread -> its get_or_create_context call: [pc, model, ctx]
                   \*   pc: "idle" | "create" | "assign"
    detections,    \* PostProcessor::nms: the vector it is given and leaves its result in
    nms_in,        \* history: the vector as it was given to nms
    nms_threshold, \* PostProcessor::nms: the threshold argument, a ratio [num, den]
    mutex_,        \* StreamManager::mutex_: the manager call that holds it, 0 = free
    heap,          \* the StreamContext objects created so far, by address: [alive, running,
                   \*   stop_requested, decode_thread]; decode_thread: the thread the handle
                   \*   refers to, 0 = not joinable
    call,          \* manager caller -> its call: [op, pc, pending, seen]
                   \*   pc: "idle" | "joinable" | "join" | "destroy" | "assign" | "crashed"
    map_mutex_,    \* ImageCache::map_mutex_: the cache caller that holds it, 0 = free
    ring_mutex,    \* StreamCache object -> the cache caller that holds its mutex, 0 = free
    jst            \* cache caller -> its call's locals: [todo, cur, oldest_cam, oldest_ts]

qvars == <<qpc, qNext, qPushed, qPopped, qDiscarded, qOnlyPush, qAtStop>>
cvars == <<cRet>>
evars == <<initialized_, sdpc, wpc, wtask, wout, stop_requested_, processed_count_,
           num_models, pframe, pmodel, sink, fate,
           pub_initialized_, models_, contexts_, sdBusy>>
mvars == <<pub_initialized_, models_, contexts_, sdBusy>>

kvars == <<duration_sec_, max_memory_bytes_, caches_, rings, total_memory_,
           cpc, cframe, cref, cevict, cAdds, inserted, mono>>

svars == <<has_ffmpeg, streams_, thr, feed, faults, mpc, frame_skips, hist>>
rvars == <<saved, rpc, rRemoved>>
xvars == <<ctx_of, dup_ctxs, lpc, gpc>>
pvars == <<detections, nms_in, nms_threshold>>
lvars == <<mutex_, heap, call>>
jvars == <<map_mutex_, ring_mutex, jst>>

vars == <<task_queue_, qpc, qNext, qPushed, qPopped, qDiscarded, qOnlyPush, qAtStop, lastOp,
          collectors, cRet,
          initialized_, sdpc, wpc, wtask, wout, stop_requested_, processed_count_,
          num_models, pframe, pmodel, sink, fate,
          pub_initialized_, models_, contexts_, sdBusy,
          duration_sec_, max_memory_bytes_, caches_, rings, total_memory_,
          cpc, cframe, cref, cevict, cAdds, inserted, mono,
          has_ffmpeg, streams_, thr, feed, faults, mpc, frame_skips, hist,
          saved, rpc, rRemoved,
          ctx_of, dup_ctxs, lpc, gpc,
          detections, nms_in, nms_threshold,
          mutex_, heap, call,
          map_mutex_, ring_mutex, jst>>

(***************************************************************************)
(* Bounds                                                                  *)
(***************************************************************************)
MaxCapacity == 3
MaxItems == 5
NumConsumers == 2
MaxModels == 3
MaxFrames == 1
NumWorkers == 2

Consumers == 1..NumConsumers
Workers == 1..NumWorkers
Frames == 1..MaxFrames
\* the numbers of model bindings and the queue sizes (infer_queue_size) configured
ModelCounts == {1, 2}
QueueSizes == {1, 2}
MaxModelCount == CHOOSE n \in ModelCounts : \A m \in ModelCounts : m <= n
TaskIds == Frames \X (1..MaxModelCount)
\* std::optional: nullopt is the empty sequence, a value v is <<v>>
nullopt == <<>>
Some(v) == <<v>>
has_value(o) == Len(o) > 0
value(o) == o[1]
NoOp == [op |-> "none", who |-> 0, arg |-> nullopt, ret |-> nullopt]

Min(a, b) == IF a < b THEN a ELSE b
Max(a, b) == IF a > b THEN a ELSE b

(***************************************************************************)
(* BoundedQueue (include/infer_server/common/bounded_queue.h).  Every      *)
(* member function runs under mutex_, so each is one atomic step; pop is   *)
(* the exception: wait_for releases the mutex while the consumer is        *)
(* blocked, so a blocked consumer is a state of its own.                   *)
(***************************************************************************)
BoundedQueue(capacity) ==
    [capacity_ |-> IF capacity > 0 THEN capacity ELSE 1,
     queue_ |-> <<>>, stopped_ |-> FALSE, dropped_count_ |-> 0]

\* push as it would be without the overflow branch
push_no_drop(q, item) ==
    IF q.stopped_ THEN [q |-> q, ret |-> FALSE]
    ELSE [q |-> [q EXCEPT !.queue_ = Append(q.queue_, item)], ret |-> TRUE]

\* push that makes room by discarding the newest queued item
push_drop_newest(q, item) ==
    IF q.stopped_ THEN [q |-> q, ret |-> FALSE]
    ELSE LET full == Len(q.queue_) >= q.capacity_
             kept == IF full THEN SubSeq(q.queue_, 1, Len(q.queue_) - 1) ELSE q.queue_
             dropped == IF full THEN q.dropped_count_ + 1 ELSE q.dropped_count_
         IN  [q |-> [q EXCEPT !.queue_ = Append(kept, item), !.dropped_count_ = dropped],
              ret |-> TRUE]

\* push that discards the head without counting it
push_uncounted(q, item) ==
    IF q.stopped_ THEN [q |-> q, ret |-> FALSE]
    ELSE LET full == Len(q.queue_) >= q.capacity_
             kept == IF full THEN Tail(q.queue_) ELSE q.queue_
         IN  [q |-> [q EXCEPT !.queue_ = Append(kept, item)], ret |-> TRUE]

\* push that does not look at stopped_
push_ignoring_stop(q, item) ==
    LET full == Len(q.queue_) >= q.capacity_
        kept == IF full THEN Tail(q.queue_) ELSE q.queue_
        dropped == IF full THEN q.dropped_count_ + 1 ELSE q.dropped_count_
    IN  [q |-> [q EXCEPT !.queue_ = Append(kept, item), !.dropped_count_ = dropped],
         ret |-> TRUE]

\* push(item): [q |-> the queue afterwards, ret |-> the bool returned]
push(q, item) ==
    IF q.stopped_ THEN [q |-> q, ret |-> FALSE]
    ELSE LET full == Len(q.queue_) >= q.capacity_
             kept == IF full THEN Tail(q.queue_) ELSE q.queue_
             dropped == IF full THEN q.dropped_count_ + 1 ELSE q.dropped_count_
         IN  [q |-> [q EXCEPT !.queue_ = Append(kept, item), !.dropped_count_ = dropped],
              ret |-> TRUE]

\* a wait predicate that looks at the items only
pop_ready_items_only(q) == Len(q.queue_) > 0

\* the predicate pop waits for
pop_ready(q) == Len(q.queue_) > 0 \/ q.stopped_

\* a pop that hands out the newest item
take_back(q) ==
    IF Len(q.queue_) = 0 THEN [q |-> q, ret |-> nullopt]
    ELSE [q |-> [q EXCEPT !.queue_ = SubSeq(q.queue_, 1, Len(q.queue_) - 1)],
          ret |-> Some(q.queue_[Len(q.queue_)])]

\* front() and pop() of the std::queue: [q, ret], ret = nullopt on an empty queue
take_front(q) ==
    IF Len(q.queue_) = 0 THEN [q |-> q, ret |-> nullopt]
    ELSE [q |-> [q EXCEPT !.queue_ = Tail(q.queue_)], ret |-> Some(Head(q.queue_))]

try_pop(q) == take_front(q)

\* a stop that leaves stopped_ as it is
stop_unset(q) == q

stop(q) == [q EXCEPT !.stopped_ = TRUE]

clear(q) == [q EXCEPT !.queue_ = <<>>]

reset(q) == [q EXCEPT !.queue_ = <<>>, !.stopped_ = FALSE, !.dropped_count_ = 0]

size(q) == Len(q.queue_)

(***************************************************************************)
(* FrameResultCollector (inference/frame_result_collector.h).  add_result  *)
(* runs under the collector's mutex_: one atomic step.  A FrameResult is   *)
(* [frame_id, results]; a ModelResult is whatever the caller passes.       *)
(***************************************************************************)
FrameResult(frame_id) == [frame_id |-> frame_id, results |-> <<>>]

FrameResultCollector(total_models, base_result) ==
    [total_models_ |-> total_models, result_ |-> base_result, completed_ |-> 0]

\* add_result comparing the counter as it was before this call's increment
add_result_stale(col, model_result) ==
    LET result == [col.result_ EXCEPT !.results = Append(@, model_result)]
    IN  [col |-> [col EXCEPT !.result_ = result, !.completed_ = col.completed_ + 1],
         ret |-> IF col.completed_ = col.total_models_ THEN Some(result) ELSE nullopt]

\* add_result(model_result): [col |-> the collector afterwards,
\*                            ret |-> the completed FrameResult or nullopt]
add_result(col, model_result) ==
    LET result == [col.result_ EXCEPT !.results = Append(@, model_result)]
        completed == col.completed_ + 1
    IN  [col |-> [col EXCEPT !.result_ = result, !.completed_ = completed],
         ret |-> IF completed = col.total_models_ THEN Some(result) ELSE nullopt]

completed_count(col) == col.completed_

is_complete(col) == col.completed_ >= col.total_models_

(***************************************************************************)
(* InferWorker::process_task and InferenceEngine::submit                   *)
(* (src/inference/infer_worker.cpp, src/inference/inference_engine.cpp).   *)
(* An InferTask is [frame_id, model, aggregator]; aggregator is the        *)
(* optional reference to the frame's collector (its index in collectors).  *)
(* HwDecoder::decode_frame never assigns DecodedFrame::frame_id, so every  *)
(* task and result carries the member's initial value; the model tells the *)
(* frames apart by an extra field, frame: the frame's index in decode      *)
(* order, which stands for the identity of the DecodedFrame object.        *)
(* ok = FALSE stands for any of the early returns of process_task: no      *)
(* context, no model info, empty input or an NPU driver error.             *)
(***************************************************************************)
\* the frame decode_frame() returns for the frame-th decoded picture
DecodedFrame(frame) == [frame |-> frame, frame_id |-> 0]

\* the FrameResult built from a decoded frame (base_result, or the worker's result)
FrameResultOf(frame, frame_id) == FrameResult(frame_id) @@ [frame |-> frame]

InferTask(frame_id, model, aggregator) ==
    [frame_id |-> frame_id, model |-> model, aggregator |-> aggregator]

ModelResult(task, w) == [task_name |-> task.model, by |-> w]

\* process_task that also delivers a result for a task it had to give up
process_task_on_failure(w, task, cols, ok) ==
    LET model_result == ModelResult(task, w) IN
    IF has_value(task.aggregator)
    THEN LET a == value(task.aggregator)
             r == add_result(cols[a], model_result)
         IN  [cols |-> [cols EXCEPT ![a] = r.col], out |-> r.ret]
    ELSE [cols |-> cols,
          out |-> Some([FrameResultOf(task.frame, task.frame_id)
                        EXCEPT !.results = <<model_result>>])]

\* process_task(task) by worker w: [cols |-> the collectors afterwards,
\*                                  out |-> the frame result passed to on_complete_, if any]
process_task(w, task, cols, ok) ==
    IF ~ok THEN [cols |-> cols, out |-> nullopt]
    ELSE LET model_result == ModelResult(task, w) IN
         IF has_value(task.aggregator)
         THEN LET a == value(task.aggregator)
                  r == add_result(cols[a], model_result)
              IN  [cols |-> [cols EXCEPT ![a] = r.col], out |-> r.ret]
         ELSE [cols |-> cols,
               out |-> Some([FrameResultOf(task.frame, task.frame_id)
                        EXCEPT !.results = <<model_result>>])]

\* submit(task): [q |-> the queue afterwards, ret |-> the bool returned]
submit(initialized, q, task) ==
    IF ~initialized THEN [q |-> q, ret |-> FALSE] ELSE push(q, task)

(***************************************************************************)
(* ImageCache (src/cache/image_cache.cpp).  A CachedFrame is [cam_id,      *)
(* timestamp_ms, jpeg_size]; a StreamCache is [frames, memory_bytes].      *)
(* StreamCache objects are shared_ptr targets: caches_ and the callers     *)
(* inside add_frame hold references (elements of RingIds) to them.         *)
(***************************************************************************)
Streams == {"cam1", "cam2"}
RingIds == 1..4
NoRing == 0
\* the constructor arguments and the frames the callers pass
Durations == {1, 2}
MemoryLimitsMb == {0, 1}
Timestamps == {1000, 2000, 3000, 4000}
JpegSizes == {524288, 1048576}

CachedFrame(cam_id, timestamp_ms, jpeg_size) ==
    [cam_id |-> cam_id, timestamp_ms |-> timestamp_ms, jpeg_size |-> jpeg_size]

StreamCache == [frames |-> <<>>, memory_bytes |-> 0]

\* ImageCache(duration_sec, max_memory_mb): max_memory_bytes_
max_memory_bytes(max_memory_mb) == max_memory_mb * 1024 * 1024

\* a frame added at the head of the deque
push_front(frames, frame) == <<frame>> \o frames

\* cache->frames.push_back(frame)
push_back(frames, frame) == Append(frames, frame)

\* an expiry test that also expires the frame exactly at the threshold
expired_inclusive(frame, threshold) == frame.timestamp_ms <= threshold

\* evict_expired: the loop's test of the head frame
expired(frame, threshold) == frame.timestamp_ms < threshold

\* evict_expired(cache, now_ms): [cache, total] afterwards
RECURSIVE evict_expired_loop(_, _, _)
evict_expired_loop(cache, total, threshold) ==
    IF Len(cache.frames) > 0 /\ expired(Head(cache.frames), threshold)
    THEN LET frame_size == Head(cache.frames).jpeg_size IN
         evict_expired_loop([frames |-> Tail(cache.frames),
                             memory_bytes |-> cache.memory_bytes - frame_size],
                            total - frame_size, threshold)
    ELSE [cache |-> cache, total |-> total]

evict_expired(cache, total, duration_sec, now_ms) ==
    evict_expired_loop(cache, total, now_ms - duration_sec * 1000)

\* a global eviction that pops the head without debiting the global counter
evict_front_undebited(cache, total) ==
    LET frame_size == Head(cache.frames).jpeg_size IN
    [cache |-> [frames |-> Tail(cache.frames),
                memory_bytes |-> cache.memory_bytes - frame_size],
     total |-> total]

\* evict_global_memory: pop the head of the chosen ring and debit both counters
evict_front(cache, total) ==
    LET frame_size == Head(cache.frames).jpeg_size IN
    [cache |-> [frames |-> Tail(cache.frames),
                memory_bytes |-> cache.memory_bytes - frame_size],
     total |-> total - frame_size]

\* a remove_stream that erases the ring and leaves the global counter alone
remove_stream_undebited(total, cache) == total

\* a remove_stream that debits the bytes of every ring
remove_stream_zeroed(total, cache) == 0

\* remove_stream: total_memory_ after the ring's bytes are debited
remove_stream_total(total, cache) == total - cache.memory_bytes

\* get_frame(cam_id, timestamp_ms) on the StreamCache found for cam_id
RECURSIVE find_frame(_, _)
find_frame(frames, timestamp_ms) ==
    IF Len(frames) = 0 THEN nullopt
    ELSE IF Head(frames).timestamp_ms = timestamp_ms THEN Some(Head(frames))
    ELSE find_frame(Tail(frames), timestamp_ms)

RECURSIVE SumSizes(_)
SumSizes(frames) ==
    IF Len(frames) = 0 THEN 0 ELSE Head(frames).jpeg_size + SumSizes(Tail(frames))

(***************************************************************************)
(* Initial values of the variables a specification does not use            *)
(***************************************************************************)
QueueUnused ==
    /\ qpc = [c \in Consumers |-> "idle"]
    /\ qNext = 1
    /\ qPushed = 0
    /\ qPopped = <<>>
    /\ qDiscarded = FALSE
    /\ qOnlyPush = TRUE
    /\ qAtStop = {}

CollectorUnused == cRet = <<>>

EngineUnused ==
    /\ initialized_ = FALSE
    /\ sdpc = 0
    /\ wpc = <<>>
    /\ wtask = <<>>
    /\ wout = <<>>
    /\ stop_requested_ = <<>>
    /\ processed_count_ = <<>>
    /\ num_models = 0
    /\ pframe = 0
    /\ pmodel = 0
    /\ sink = <<>>
    /\ fate = <<>>
    /\ pub_initialized_ = FALSE
    /\ models_ = {}
    /\ contexts_ = <<>>
    /\ sdBusy = FALSE

LockUnused ==
    /\ map_mutex_ = 0
    /\ ring_mutex = <<>>
    /\ jst = <<>>

CacheUnused ==
    /\ LockUnused
    /\ duration_sec_ = 0
    /\ max_memory_bytes_ = 0
    /\ caches_ = <<>>
    /\ rings = <<>>
    /\ total_memory_ = 0
    /\ cpc = <<>>
    /\ cframe = <<>>
    /\ cref = <<>>
    /\ cevict = <<>>
    /\ cAdds = 0
    /\ inserted = <<>>
    /\ mono = <<>>

LifeUnused ==
    /\ mutex_ = 0
    /\ heap = <<>>
    /\ call = <<>>

PostUnused ==
    /\ LifeUnused
    /\ detections = <<>>
    /\ nms_in = <<>>
    /\ nms_threshold = <<>>

ContextsUnused ==
    /\ PostUnused
    /\ ctx_of = <<>>
    /\ dup_ctxs = {}
    /\ lpc = <<>>
    /\ gpc = <<>>

RegistryUnused ==
    /\ ContextsUnused
    /\ saved = {}
    /\ rpc = <<>>
    /\ rRemoved = {}

StreamUnused ==
    /\ RegistryUnused
    /\ has_ffmpeg = TRUE
    /\ streams_ = <<>>
    /\ thr = <<>>
    /\ feed = <<>>
    /\ faults = <<>>
    /\ mpc = <<>>
    /\ frame_skips = {}
    /\ hist = <<>>

(***************************************************************************)
(* SpecQueue: producers and consumers on one BoundedQueue<int>             *)
(***************************************************************************)
InitQueue ==
    /\ \E c \in 0..MaxCapacity : task_queue_ = BoundedQueue(c)
    /\ qpc = [c \in Consumers |-> "idle"]
    /\ qNext = 1
    /\ qPushed = 0
    /\ qPopped = <<>>
    /\ qDiscarded = FALSE
    /\ qOnlyPush = TRUE
    /\ qAtStop = {}
    /\ lastOp = NoOp
    /\ collectors = <<>>
    /\ CollectorUnused
    /\ EngineUnused
    /\ CacheUnused
    /\ StreamUnused

\* history of a pop / try_pop that returned r
Returned(r) == qPopped \o r

QPush ==
    /\ qNext <= MaxItems
    /\ LET r == push(task_queue_, qNext) IN
        /\ task_queue_' = r.q
        /\ qNext' = qNext + 1
        /\ qPushed' = IF r.ret THEN qPushed + 1 ELSE qPushed
        /\ qOnlyPush' = (qOnlyPush /\ r.ret)
        /\ lastOp' = [op |-> "push", who |-> 0, arg |-> Some(qNext), ret |-> r.ret]
    /\ UNCHANGED <<qpc, qPopped, qDiscarded, qAtStop>>

\* pop(timeout): the predicate holds at the first check, no wait
QPopNow(c) ==
    /\ qpc[c] = "idle"
    /\ pop_ready(task_queue_)
    /\ LET r == take_front(task_queue_) IN
        /\ task_queue_' = r.q
        /\ qPopped' = Returned(r.ret)
        /\ lastOp' = [op |-> "pop", who |-> c, arg |-> nullopt, ret |-> r.ret]
    /\ qOnlyPush' = FALSE
    /\ UNCHANGED <<qpc, qNext, qPushed, qDiscarded, qAtStop>>

\* pop(timeout): the predicate is false, the consumer blocks in wait_for
QPopWait(c) ==
    /\ qpc[c] = "idle"
    /\ ~pop_ready(task_queue_)
    /\ qpc' = [qpc EXCEPT ![c] = "waiting"]
    /\ qOnlyPush' = FALSE
    /\ lastOp' = [op |-> "pop_wait", who |-> c, arg |-> nullopt, ret |-> nullopt]
    /\ UNCHANGED <<task_queue_, qNext, qPushed, qPopped, qDiscarded, qAtStop>>

\* a blocked consumer is notified (or wakes spuriously) and finds the predicate true
QPopWake(c) ==
    /\ qpc[c] = "waiting"
    /\ pop_ready(task_queue_)
    /\ LET r == take_front(task_queue_) IN
        /\ task_queue_' = r.q
        /\ qPopped' = Returned(r.ret)
        /\ lastOp' = [op |-> "pop_woken", who |-> c, arg |-> nullopt, ret |-> r.ret]
    /\ qpc' = [qpc EXCEPT ![c] = "idle"]
    /\ qAtStop' = qAtStop \ {c}
    /\ UNCHANGED <<qNext, qPushed, qDiscarded, qOnlyPush>>

\* the timeout elapses with the predicate still false: wait_for returns false
QPopTimeout(c) ==
    /\ qpc[c] = "waiting"
    /\ ~pop_ready(task_queue_)
    /\ qpc' = [qpc EXCEPT ![c] = "idle"]
    /\ lastOp' = [op |-> "pop_timeout", who |-> c, arg |-> nullopt, ret |-> nullopt]
    /\ qAtStop' = qAtStop \ {c}
    /\ UNCHANGED <<task_queue_, qNext, qPushed, qPopped, qDiscarded, qOnlyPush>>

QTryPop(c) ==
    /\ qpc[c] = "idle"
    /\ LET r == try_pop(task_queue_) IN
        /\ task_queue_' = r.q
        /\ qPopped' = Returned(r.ret)
        /\ lastOp' = [op |-> "try_pop", who |-> c, arg |-> nullopt, ret |-> r.ret]
    /\ qOnlyPush' = FALSE
    /\ UNCHANGED <<qpc, qNext, qPushed, qDiscarded, qAtStop>>

QStop ==
    /\ task_queue_' = stop(task_queue_)
    /\ qOnlyPush' = FALSE
    /\ lastOp' = [op |-> "stop", who |-> 0, arg |-> nullopt, ret |-> nullopt]
    /\ qAtStop' = {c \in Consumers : qpc[c] = "waiting"}
    /\ UNCHANGED <<qpc, qNext, qPushed, qPopped, qDiscarded>>

QClear ==
    /\ task_queue_' = clear(task_queue_)
    /\ qDiscarded' = TRUE
    /\ qOnlyPush' = FALSE
    /\ lastOp' = [op |-> "clear", who |-> 0, arg |-> nullopt, ret |-> nullopt]
    /\ UNCHANGED <<qpc, qNext, qPushed, qPopped, qAtStop>>

QReset ==
    /\ task_queue_' = reset(task_queue_)
    /\ qDiscarded' = TRUE
    /\ qOnlyPush' = FALSE
    /\ lastOp' = [op |-> "reset", who |-> 0, arg |-> nullopt, ret |-> nullopt]
    /\ UNCHANGED <<qpc, qNext, qPushed, qPopped, qAtStop>>

NextQueue ==
    \/ QPush
    \/ \E c \in Consumers : QPopNow(c)
    \/ \E c \in Consumers : QPopWait(c)
    \/ \E c \in Consumers : QPopWake(c)
    \/ \E c \in Consumers : QPopTimeout(c)
    \/ \E c \in Consumers : QTryPop(c)
    \/ QStop
    \/ QClear
    \/ QReset

SpecQueue == InitQueue /\ [][NextQueue /\ UNCHANGED <<collectors, cvars, evars, kvars, svars, rvars, xvars, pvars, lvars, jvars>>]_vars

(***************************************************************************)
(* Claims about the queue                                                  *)
(***************************************************************************)
\* C1: in every reachable state, whatever the interleaving of push, pop,
\* try_pop, stop, clear and reset, the queue holds at most capacity_ items.
C1_SizeAtMostCapacity == size(task_queue_) <= task_queue_.capacity_

\* a push has just overflowed a full queue of capacity >= 2
C1_Witness ==
    /\ lastOp.op = "push" /\ lastOp.ret = TRUE
    /\ task_queue_.capacity_ >= 2
    /\ size(task_queue_) = task_queue_.capacity_
    /\ task_queue_.dropped_count_ > 0

\* the items 1..n pushed so far, the last k of them
LastPushed(n, k) == [i \in 1..k |-> n - k + i]

\* C2: a successful push on a full queue removes exactly the head, appends
\* the item at the tail, leaves the size at capacity and adds 1 to
\* dropped_count; a push on a queue that is not full appends and leaves
\* dropped_count alone.  Hence n pushes on a new queue of capacity C leave
\* the last min(n, C) items in push order and dropped_count = max(0, n - C)
\* (capacity 3, pushes 1..5: items 3,4,5 and 2 dropped).
C2_PushDropsOldest ==
    /\ [][(lastOp'.op = "push" /\ lastOp'.ret = TRUE) =>
            IF size(task_queue_) >= task_queue_.capacity_
            THEN /\ task_queue_'.queue_ = Tail(task_queue_.queue_) \o lastOp'.arg
                 /\ size(task_queue_') = task_queue_.capacity_
                 /\ task_queue_'.dropped_count_ = task_queue_.dropped_count_ + 1
            ELSE /\ task_queue_'.queue_ = task_queue_.queue_ \o lastOp'.arg
                 /\ task_queue_'.dropped_count_ = task_queue_.dropped_count_]_vars
    /\ [](qOnlyPush =>
            /\ task_queue_.queue_ =
                   LastPushed(qPushed, Min(qPushed, task_queue_.capacity_))
            /\ task_queue_.dropped_count_ = Max(0, qPushed - task_queue_.capacity_))

\* pushes 1..5 on a queue of capacity 3 and nothing else
C2_Witness ==
    /\ qOnlyPush /\ qPushed = 5 /\ task_queue_.capacity_ = 3
    /\ task_queue_.queue_ = <<3, 4, 5>> /\ task_queue_.dropped_count_ = 2

\* C3 as stated: at any time, successful pushes = items returned by
\* pop/try_pop + dropped_count + items still queued.
C3_Original ==
    qPushed = Len(qPopped) + task_queue_.dropped_count_ + size(task_queue_)

\* C3 as amended: the balance holds for every lifetime in which clear() and
\* reset() are not called (clear discards items without counting them and
\* reset also zeroes dropped_count).
C3_Balance == ~qDiscarded => C3_Original

\* items were pushed, dropped, popped and are still queued, after a stop
C3_Witness ==
    /\ ~qDiscarded /\ task_queue_.stopped_
    /\ task_queue_.dropped_count_ > 0 /\ Len(qPopped) > 0 /\ size(task_queue_) > 0

\* C4: no item is returned by two pop/try_pop calls, and the items that are
\* returned leave in the order in which they were pushed: the sequence of
\* returned items is strictly increasing in push order.
C4_ExclusiveFifo ==
    \A i, j \in 1..Len(qPopped) : i < j => qPopped[i] < qPopped[j]

\* two consumers have taken items, one of them after blocking, around a drop
C4_Witness ==
    /\ Len(qPopped) >= 3
    /\ task_queue_.dropped_count_ > 0
    /\ \E i \in 1..(Len(qPopped) - 1) : qPopped[i + 1] > qPopped[i] + 1
    /\ lastOp.op = "pop" /\ lastOp.who = 2

(***************************************************************************)
(* SpecQueueLive: SpecQueue with a fair condition variable: a consumer     *)
(* blocked in wait_for whose predicate holds (it was notified by push or   *)
(* stop, or its timeout ran out) is eventually scheduled and returns.      *)
(***************************************************************************)
SpecQueueLive ==
    SpecQueue /\ \A c \in Consumers :
                    WF_vars(QPopWake(c) /\ UNCHANGED <<collectors, cvars, evars, kvars, svars, rvars, xvars, pvars, lvars, jvars>>)

\* what a pop or try_pop returns on queue q: the head, or none if q is empty
Front(q) == IF size(q) = 0 THEN nullopt ELSE Some(Head(q.queue_))

\* C11: on a stopped queue every push returns false and leaves the queue
\* (contents, size, dropped_count) as it was, and try_pop still hands out
\* the items that were enqueued before stop(), head first.
C11_PushAfterStop ==
    /\ [][(task_queue_.stopped_ /\ lastOp'.op = "push") =>
            /\ lastOp'.ret = FALSE
            /\ task_queue_' = task_queue_]_vars
    /\ [][(task_queue_.stopped_ /\ lastOp'.op = "try_pop") =>
            /\ lastOp'.ret = Front(task_queue_)
            /\ task_queue_'.queue_ =
                   IF size(task_queue_) = 0 THEN <<>> ELSE Tail(task_queue_.queue_)
            /\ task_queue_'.dropped_count_ = task_queue_.dropped_count_]_vars

\* push, stop, a refused push, then try_pop returns an item pushed before stop
C11_Witness ==
    /\ task_queue_.stopped_ /\ ~qDiscarded
    /\ qPushed < qNext - 1
    /\ lastOp.op = "try_pop" /\ has_value(lastOp.ret)

\* C12: stop() sets stopped_; a pop called on a stopped, empty queue returns
\* none at once (it never blocks); a consumer blocked in pop on an empty
\* queue that has been stopped returns none through the wake-up, not through
\* its timeout, and it does return (unless reset() un-stops the queue first).
C12_StopUnblocksPop ==
    /\ [][lastOp'.op = "stop" => task_queue_'.stopped_]_vars
    /\ [][\A c \in Consumers :
            (/\ task_queue_.stopped_ /\ size(task_queue_) = 0
             /\ lastOp'.who = c
             /\ \/ qpc[c] = "idle" /\ lastOp'.op \in {"pop", "pop_wait"}
                \/ qpc[c] = "waiting" /\ lastOp'.op \in {"pop_woken", "pop_timeout"})
            => /\ lastOp'.op \in {"pop", "pop_woken"}
               /\ lastOp'.ret = nullopt
               /\ qpc'[c] = "idle"
               /\ task_queue_' = task_queue_]_vars
    /\ \A c \in Consumers :
          (qpc[c] = "waiting" /\ task_queue_.stopped_)
              ~> (qpc[c] = "idle" \/ ~task_queue_.stopped_)

\* a consumer that was blocked has been woken by stop() and returned none
C12_Witness ==
    /\ task_queue_.stopped_ /\ ~qDiscarded
    /\ lastOp.op = "pop_woken" /\ lastOp.ret = nullopt
    /\ qAtStop = {}

Callers == 1..(MaxModels + 1)

InitCollector ==
    /\ \E n \in 1..MaxModels :
          collectors = <<FrameResultCollector(n, FrameResult(1))>>
    /\ cRet = [t \in Callers |-> [called |-> FALSE, ret |-> nullopt]]
    /\ task_queue_ = BoundedQueue(1)
    /\ QueueUnused
    /\ EngineUnused
    /\ CacheUnused
    /\ StreamUnused
    /\ lastOp = NoOp

CAddResult(t) ==
    /\ ~cRet[t].called
    /\ LET r == add_result(collectors[1], t) IN
        /\ collectors' = [collectors EXCEPT ![1] = r.col]
        /\ cRet' = [cRet EXCEPT ![t] = [called |-> TRUE, ret |-> r.ret]]
        /\ lastOp' = [op |-> "add_result", who |-> t, arg |-> Some(t), ret |-> r.ret]
    /\ UNCHANGED <<task_queue_, qvars, evars>>

NextCollector == \E t \in Callers : CAddResult(t)

SpecCollector == InitCollector /\ [][NextCollector /\ UNCHANGED <<kvars, svars, rvars, xvars, pvars, lvars, jvars>>]_vars

\* the callers whose add_result has returned, and those it returned a frame result to
CCalled == {t \in Callers : cRet[t].called}
CCompleted == {t \in CCalled : has_value(cRet[t].ret)}

\* C5: when add_result has been called exactly N times on a collector
\* constructed with N, exactly one call has returned the completed frame
\* result and the other N-1 returned none; the returned result holds
\* exactly N model results and completed_count is N.
C5_ExactlyOneCompletes ==
    LET col == collectors[1] IN
    Cardinality(CCalled) = col.total_models_ =>
        /\ Cardinality(CCompleted) = 1
        /\ \A t \in CCompleted : Len(value(cRet[t].ret).results) = col.total_models_
        /\ completed_count(col) = col.total_models_

\* the N-th of N >= 3 calls has just returned the completed result
C5_Witness ==
    /\ collectors[1].total_models_ >= 3
    /\ Cardinality(CCalled) = collectors[1].total_models_
    /\ lastOp.op = "add_result" /\ has_value(lastOp.ret)

(***************************************************************************)
(* SpecEngine: one stream pipeline submitting the tasks of its frames, the *)
(* engine's queue, its workers and the completion sink, with init() and    *)
(* shutdown() called from a management thread.                             *)
(***************************************************************************)
InitEngine ==
    /\ \E c \in QueueSizes : task_queue_ = BoundedQueue(c)
    /\ \E n \in ModelCounts : num_models = n
    /\ initialized_ = FALSE
    /\ sdpc = 0
    /\ wpc = [w \in Workers |-> "none"]
    /\ wtask = [w \in Workers |-> nullopt]
    /\ wout = [w \in Workers |-> nullopt]
    /\ stop_requested_ = [w \in Workers |-> FALSE]
    /\ processed_count_ = [w \in Workers |-> 0]
    /\ pframe = 0
    /\ pmodel = 0
    /\ sink = <<>>
    /\ fate = [t \in TaskIds |-> "none"]
    /\ pub_initialized_ = FALSE
    /\ models_ = {}
    /\ contexts_ = [w \in Workers |-> {}]
    /\ sdBusy = FALSE
    /\ collectors = <<>>
    /\ QueueUnused
    /\ CollectorUnused
    /\ CacheUnused
    /\ StreamUnused
    /\ lastOp = NoOp

TaskId(task) == <<task.frame, task.model>>

\* InferenceEngine::init(): initialise the publisher, create the workers and
\* start their threads
EInit ==
    /\ ~initialized_ /\ sdpc = 0
    /\ pub_initialized_' = TRUE
    /\ wpc' = [w \in Workers |-> "idle"]
    /\ wtask' = [w \in Workers |-> nullopt]
    /\ wout' = [w \in Workers |-> nullopt]
    /\ stop_requested_' = [w \in Workers |-> FALSE]
    /\ processed_count_' = [w \in Workers |-> 0]
    /\ contexts_' = [w \in Workers |-> {}]
    /\ initialized_' = TRUE
    /\ UNCHANGED <<task_queue_, collectors, sdpc, num_models, pframe, pmodel, sink, fate,
                   models_, sdBusy>>

\* InferWorker::pre_create_context: the worker holds a context of the model
pre_create_context(ctxs, model) == ctxs \cup {model}

\* InferenceEngine::load_models: each binding's model not yet loaded is
\* loaded and a context of it is created for every worker in workers_
LoadModels ==
    /\ sdpc = 0
    /\ ~(1..num_models \subseteq models_)
    /\ models_' = models_ \cup 1..num_models
    /\ contexts_' = [w \in Workers |->
                        IF wpc[w] = "none" THEN contexts_[w]
                        ELSE LET add[i \in 0..num_models] ==
                                     IF i = 0 THEN contexts_[w]
                                     ELSE IF i \in models_ THEN add[i - 1]
                                     ELSE pre_create_context(add[i - 1], i)
                             IN  add[num_models]]
    /\ UNCHANGED <<task_queue_, collectors, initialized_, sdpc, wpc, wtask, wout,
                   stop_requested_, processed_count_, num_models, pframe, pmodel, sink, fate,
                   pub_initialized_, sdBusy>>

\* load_models called by add_stream before the pipeline thread is started
\* (the program serves add_stream only after the engine's init() has
\* returned)
ELoadModels ==
    /\ initialized_ /\ pframe = 0 /\ pmodel = 0
    /\ LoadModels

\* load_models called through the engine's interface before init(): workers_
\* is empty, the models are loaded and no context is created
ELoadModelsEarly ==
    /\ ~initialized_
    /\ LoadModels

\* shutdown(): task_queue_.stop()
EShutdownBegin ==
    /\ initialized_ /\ sdpc = 0
    /\ task_queue_' = stop(task_queue_)
    /\ sdpc' = 1
    /\ UNCHANGED <<collectors, initialized_, wpc, wtask, wout, stop_requested_,
                   processed_count_, num_models, pframe, pmodel, sink, fate>>
    /\ UNCHANGED mvars

\* shutdown(): worker->stop() sets stop_requested_ and then joins the thread
EStopWorker ==
    /\ sdpc \in Workers /\ ~stop_requested_[sdpc]
    /\ stop_requested_' = [stop_requested_ EXCEPT ![sdpc] = TRUE]
    /\ UNCHANGED <<task_queue_, collectors, initialized_, sdpc, wpc, wtask, wout,
                   processed_count_, num_models, pframe, pmodel, sink, fate>>
    /\ UNCHANGED mvars

\* std::thread::join returns once the thread has exited
joined_no_wait(pc) == TRUE
joined(pc) == pc = "exited"

\* InferWorker::release_all_contexts
release_all_contexts(ctxs) == {}

\* shutdown(): the join of worker->stop() returns, and stop() releases the
\* worker's contexts
EJoinWorker ==
    /\ sdpc \in Workers /\ stop_requested_[sdpc] /\ joined(wpc[sdpc])
    /\ contexts_' = [contexts_ EXCEPT ![sdpc] = release_all_contexts(@)]
    /\ sdpc' = sdpc + 1
    /\ UNCHANGED <<task_queue_, collectors, initialized_, wpc, wtask, wout, stop_requested_,
                   processed_count_, num_models, pframe, pmodel, sink, fate,
                   pub_initialized_, models_, sdBusy>>

\* shutdown(): workers_.clear()
EClearWorkers ==
    /\ sdpc = NumWorkers + 1
    /\ wpc' = [w \in Workers |-> "none"]
    /\ stop_requested_' = [w \in Workers |-> FALSE]
    /\ processed_count_' = [w \in Workers |-> 0]
    /\ sdpc' = sdpc + 1
    /\ UNCHANGED <<task_queue_, collectors, initialized_, wtask, wout, num_models, pframe,
                   pmodel, sink, fate>>
    /\ UNCHANGED mvars

\* shutdown(): zmq_pub_.shutdown()
EStopPublisher ==
    /\ sdpc = NumWorkers + 2
    /\ pub_initialized_' = FALSE
    /\ sdpc' = sdpc + 1
    /\ UNCHANGED <<task_queue_, collectors, initialized_, wpc, wtask, wout, stop_requested_,
                   processed_count_, num_models, pframe, pmodel, sink, fate,
                   models_, contexts_, sdBusy>>

\* ModelManager::unload_all
unload_all(models) == {}

\* shutdown(): model_mgr_.unload_all()
EUnloadAll ==
    /\ sdpc = NumWorkers + 3
    /\ models_' = unload_all(models_)
    /\ sdpc' = sdpc + 1
    /\ UNCHANGED <<task_queue_, collectors, initialized_, wpc, wtask, wout, stop_requested_,
                   processed_count_, num_models, pframe, pmodel, sink, fate,
                   pub_initialized_, contexts_, sdBusy>>

\* shutdown(): initialized_ = false, and the call returns
EShutdownEnd ==
    /\ sdpc = NumWorkers + 4
    /\ initialized_' = FALSE
    /\ sdpc' = 0
    /\ sdBusy' = FALSE
    /\ UNCHANGED <<task_queue_, collectors, wpc, wtask, wout, stop_requested_,
                   processed_count_, num_models, pframe, pmodel, sink, fate,
                   pub_initialized_, models_, contexts_>>

\* InferWorker::run(): the loop condition sees stop_requested_
WExit(w) ==
    /\ wpc[w] = "idle" /\ stop_requested_[w]
    /\ wpc' = [wpc EXCEPT ![w] = "exited"]
    /\ UNCHANGED <<task_queue_, collectors, initialized_, sdpc, wtask, wout, stop_requested_,
                   processed_count_, num_models, pframe, pmodel, sink, fate>>
    /\ UNCHANGED mvars

\* what a returning pop(500ms) leaves the worker with
WTake(w, r) ==
    /\ task_queue_' = r.q
    /\ IF has_value(r.ret)
       THEN /\ wpc' = [wpc EXCEPT ![w] = "task"]
            /\ wtask' = [wtask EXCEPT ![w] = r.ret]
            /\ fate' = [fate EXCEPT ![TaskId(value(r.ret))] = "taken"]
       ELSE /\ wpc' = [wpc EXCEPT ![w] = "idle"]
            /\ UNCHANGED <<wtask, fate>>

\* run(): pop finds the predicate true at once
WPopNow(w) ==
    /\ wpc[w] = "idle" /\ ~stop_requested_[w]
    /\ pop_ready(task_queue_)
    /\ WTake(w, take_front(task_queue_))
    /\ UNCHANGED <<collectors, initialized_, sdpc, wout, stop_requested_,
                   processed_count_, num_models, pframe, pmodel, sink>>
    /\ UNCHANGED mvars

\* run(): pop blocks on the empty queue
WPopWait(w) ==
    /\ wpc[w] = "idle" /\ ~stop_requested_[w]
    /\ ~pop_ready(task_queue_)
    /\ wpc' = [wpc EXCEPT ![w] = "waiting"]
    /\ UNCHANGED <<task_queue_, collectors, initialized_, sdpc, wtask, wout, stop_requested_,
                   processed_count_, num_models, pframe, pmodel, sink, fate>>
    /\ UNCHANGED mvars

\* run(): the blocked pop is woken by a push or by stop()
WPopWake(w) ==
    /\ wpc[w] = "waiting"
    /\ pop_ready(task_queue_)
    /\ WTake(w, take_front(task_queue_))
    /\ UNCHANGED <<collectors, initialized_, sdpc, wout, stop_requested_,
                   processed_count_, num_models, pframe, pmodel, sink>>
    /\ UNCHANGED mvars

\* run(): the 500 ms timeout elapses, the loop continues
WPopTimeout(w) ==
    /\ wpc[w] = "waiting"
    /\ ~pop_ready(task_queue_)
    /\ wpc' = [wpc EXCEPT ![w] = "idle"]
    /\ UNCHANGED <<task_queue_, collectors, initialized_, sdpc, wtask, wout, stop_requested_,
                   processed_count_, num_models, pframe, pmodel, sink, fate>>
    /\ UNCHANGED mvars

\* InferWorker::get_or_create_context: the context the worker holds, or one
\* created now from the loaded model (created: rknn_dup_context succeeds)
get_or_create_context(ctxs, models, model, created) ==
    IF model \in ctxs THEN [ctx |-> TRUE, ctxs |-> ctxs]
    ELSE IF model \in models /\ created THEN [ctx |-> TRUE, ctxs |-> ctxs \cup {model}]
    ELSE [ctx |-> FALSE, ctxs |-> ctxs]

\* run(): process_task up to the call of on_complete_; without a result to
\* forward the task is finished and processed_count_ is incremented
WProcess(w) ==
    /\ wpc[w] = "task"
    /\ \E created \in BOOLEAN, run_ok \in BOOLEAN :
        LET task == value(wtask[w])
            c == get_or_create_context(contexts_[w], models_, task.model, created)
            ok == c.ctx /\ run_ok
            r == process_task(w, task, collectors, ok)
        IN  /\ contexts_' = [contexts_ EXCEPT ![w] = c.ctxs]
            /\ collectors' = r.cols
            /\ fate' = [fate EXCEPT ![TaskId(task)] = IF ok THEN "done" ELSE "failed"]
            /\ wtask' = [wtask EXCEPT ![w] = nullopt]
            /\ IF has_value(r.out)
               THEN /\ wpc' = [wpc EXCEPT ![w] = "emit"]
                    /\ wout' = [wout EXCEPT ![w] = r.out]
                    /\ UNCHANGED processed_count_
               ELSE /\ wpc' = [wpc EXCEPT ![w] = "idle"]
                    /\ processed_count_' = [processed_count_ EXCEPT ![w] = @ + 1]
                    /\ UNCHANGED wout
    /\ sdBusy' = (sdBusy \/ sdpc > 0)
    /\ UNCHANGED <<task_queue_, initialized_, sdpc, stop_requested_,
                   num_models, pframe, pmodel, sink, pub_initialized_, models_>>

\* process_task: on_complete_(result), i.e. InferenceEngine::on_result_complete;
\* then run() increments processed_count_
WEmit(w) ==
    /\ wpc[w] = "emit"
    /\ sink' = Append(sink, [result |-> value(wout[w]), by |-> w])
    /\ wout' = [wout EXCEPT ![w] = nullopt]
    /\ wpc' = [wpc EXCEPT ![w] = "idle"]
    /\ processed_count_' = [processed_count_ EXCEPT ![w] = @ + 1]
    /\ sdBusy' = (sdBusy \/ sdpc > 0)
    /\ UNCHANGED <<task_queue_, collectors, initialized_, sdpc, wtask, stop_requested_,
                   num_models, pframe, pmodel, fate, pub_initialized_, models_, contexts_>>

\* decode_thread_func: a frame takes the full path; with more than one model
\* binding a shared collector is created for it
PNewFrame ==
    /\ pmodel = 0 /\ pframe < MaxFrames
    /\ pframe' = pframe + 1
    /\ pmodel' = 1
    /\ collectors' = IF num_models > 1
                     THEN LET frame == DecodedFrame(pframe + 1) IN
                          Append(collectors,
                                 FrameResultCollector(num_models,
                                     FrameResultOf(frame.frame, frame.frame_id)))
                     ELSE collectors
    /\ UNCHANGED <<task_queue_, initialized_, sdpc, wpc, wtask, wout, stop_requested_,
                   processed_count_, num_models, sink, fate>>
    /\ UNCHANGED mvars

\* decode_thread_func: the loop body for binding pmodel: the resize fails and
\* the binding is skipped, or the task is built and submitted
PSubmit ==
    /\ pmodel \in 1..num_models
    /\ pmodel' = IF pmodel = num_models THEN 0 ELSE pmodel + 1
    /\ \E rga_ok \in BOOLEAN :
        IF ~rga_ok
        THEN /\ fate' = [fate EXCEPT ![<<pframe, pmodel>>] = "unsubmitted"]
             /\ UNCHANGED task_queue_
        ELSE LET aggregator == IF num_models > 1 THEN Some(Len(collectors)) ELSE nullopt
                 frame == DecodedFrame(pframe)
                 task == InferTask(frame.frame_id, pmodel, aggregator)
                             @@ [frame |-> frame.frame]
                 full == size(task_queue_) >= task_queue_.capacity_
                 r == submit(initialized_, task_queue_, task)
             IN  /\ task_queue_' = r.q
                 /\ fate' = IF ~r.ret THEN [fate EXCEPT ![TaskId(task)] = "rejected"]
                            ELSE IF full
                            THEN [fate EXCEPT ![TaskId(task)] = "queued",
                                              ![TaskId(Head(task_queue_.queue_))] = "dropped"]
                            ELSE [fate EXCEPT ![TaskId(task)] = "queued"]
    /\ UNCHANGED <<collectors, initialized_, sdpc, wpc, wtask, wout, stop_requested_,
                   processed_count_, num_models, pframe, sink>>
    /\ UNCHANGED mvars

NextEngine ==
    \/ EInit
    \/ EShutdownBegin
    \/ EStopWorker
    \/ EJoinWorker
    \/ EClearWorkers
    \/ EStopPublisher
    \/ EUnloadAll
    \/ EShutdownEnd
    \/ ELoadModels
    \/ \E w \in Workers : WExit(w)
    \/ \E w \in Workers : WPopNow(w)
    \/ \E w \in Workers : WPopWait(w)
    \/ \E w \in Workers : WPopWake(w)
    \/ \E w \in Workers : WPopTimeout(w)
    \/ \E w \in Workers : WProcess(w)
    \/ \E w \in Workers : WEmit(w)
    \/ PNewFrame
    \/ PSubmit

SpecEngine == InitEngine /\ [][NextEngine /\ UNCHANGED <<qvars, cvars, lastOp, kvars, svars, rvars, xvars, pvars, lvars, jvars>>]_vars

(***************************************************************************)
(* SpecEngineApi: SpecEngine with load_models also called before init(),   *)
(* as the engine's interface allows.                                       *)
(***************************************************************************)
NextEngineApi ==
    \/ NextEngine
    \/ ELoadModelsEarly

SpecEngineApi ==
    InitEngine /\ [][NextEngineApi /\ UNCHANGED <<qvars, cvars, lastOp, kvars, svars, rvars, xvars, pvars, lvars, jvars>>]_vars

\* the positions in the sink of the results of frame f
SinkEntries(f) == {i \in 1..Len(sink) : sink[i].result.frame = f}

\* C6: the sink receives at most one result per frame; a result is forwarded
\* only when every one of the frame's N tasks has completed (none dropped
\* from the queue, failed in a worker or never submitted); it holds N model
\* results (one for a single-model frame) and is forwarded by the worker
\* whose contribution is the N-th.
C6_AtMostOneResultPerFrame ==
    \A f \in Frames :
        /\ Cardinality(SinkEntries(f)) <= 1
        /\ \A i \in SinkEntries(f) :
            /\ \A m \in 1..num_models : fate[<<f, m>>] = "done"
            /\ Len(sink[i].result.results) = num_models
            /\ sink[i].result.results[num_models].by = sink[i].by

\* a frame of N >= 2 models was forwarded, its model results coming from
\* two different workers
C6_Witness ==
    /\ num_models >= 2
    /\ \E f \in Frames : \E i \in SinkEntries(f) :
          sink[i].result.results[1].by # sink[i].result.results[num_models].by

\* a single-model frame was forwarded directly
C6_WitnessSingle ==
    /\ num_models = 1
    /\ \E f \in Frames : SinkEntries(f) # {}

\* a frame of N >= 2 models lost a task after another of its tasks completed,
\* and every worker is back at its loop head: nothing was forwarded
C6_WitnessLost ==
    /\ num_models >= 2 /\ pmodel = 0
    /\ \A w \in Workers : wpc[w] = "idle"
    /\ \E f \in Frames :
        /\ SinkEntries(f) = {}
        /\ \E m \in 1..num_models : fate[<<f, m>>] \in {"dropped", "failed", "unsubmitted", "rejected"}
        /\ \E m \in 1..num_models : fate[<<f, m>>] = "done"

\* worker w's thread takes a step of run(): it leaves pop, processes its task
\* or forwards a result (workers_.clear() is the only other change of wpc)
WorkerActs(w) ==
    /\ wpc[w] \in {"idle", "waiting", "task", "emit"}
    /\ wpc'[w] # wpc[w] /\ wpc'[w] # "none"

\* C20: shutdown() stops the queue first, then stops and joins the workers one
\* after the other, each worker's contexts being released when its join has
\* returned, then shuts the publisher down, then unloads the models, and
\* returns after that; so a worker thread takes steps only while the
\* publisher is initialised and before its own join has returned, a worker
\* never holds a context of a model that is not loaded, and at the return
\* no worker exists, the publisher is down and no model is loaded.
C20_ShutdownOrder ==
    /\ [](sdpc > 0 => task_queue_.stopped_)
    /\ [](\A w \in Workers : sdpc > w => wpc[w] \in {"exited", "none"} /\ contexts_[w] = {})
    /\ [](sdpc \in 1..(NumWorkers + 2) => pub_initialized_)
    /\ [](sdpc > NumWorkers + 2 => ~pub_initialized_)
    /\ [](sdpc > NumWorkers + 3 => models_ = {})
    /\ [](\A w \in Workers : contexts_[w] \subseteq models_)
    /\ [][(models_ # {} /\ models_' = {}) => (sdpc = NumWorkers + 3 /\ ~pub_initialized_)]_vars
    /\ [][\A w \in Workers : WorkerActs(w) => (pub_initialized_ /\ sdpc <= w)]_vars
    /\ [][(initialized_ /\ ~initialized_') =>
            /\ \A w \in Workers : wpc[w] = "none" /\ contexts_[w] = {}
            /\ task_queue_.stopped_ /\ ~pub_initialized_ /\ models_ = {}]_vars

\* shutdown() has unloaded the models after a worker, during this shutdown,
\* finished a task with a context and forwarded a result
C20_Witness ==
    /\ sdpc = NumWorkers + 4
    /\ sdBusy
    /\ sink # <<>>
    /\ \E t \in TaskIds : fate[t] = "done"

\* C21 as stated: a submit made while the engine is initialized and no
\* shutdown is running (after any sequence of init and shutdown calls) is
\* not rejected: the task is pushed and the call returns success.
C21_Original ==
    [][\A t \in TaskIds :
          (initialized_ /\ sdpc = 0 /\ fate[t] = "none") => fate'[t] # "rejected"]_vars

\* C22 as stated: in every state in which a load_models call can return with
\* the engine initialised (a call for models already loaded returns at once
\* and changes nothing), every worker holds a context of every loaded model;
\* and no worker creates a context while it processes a task.
C22_Original ==
    /\ []((initialized_ /\ sdpc = 0) => \A w \in Workers : models_ \subseteq contexts_[w])
    /\ [][\A w \in Workers : wpc[w] = "task" => contexts_'[w] = contexts_[w]]_vars

\* C26 as stated: a worker that drops its task (no context, no model info,
\* empty input or a driver error) adds nothing to the frame's collector or
\* to the sink, and its processed counter does not advance.
C26_Original ==
    [][\A w \in Workers :
          (wpc[w] = "task" /\ fate'[TaskId(value(wtask[w]))] = "failed") =>
              /\ collectors' = collectors
              /\ sink' = sink
              /\ processed_count_'[w] = processed_count_[w]]_vars

\* C33 as stated: for a frame taken through the full path of a stream with
\* N model bindings the pipeline submits a task for every binding, in
\* configuration order, carrying the frame's collector (of total N) when
\* N >= 2 and none when N = 1.
C33_Original ==
    [][(pmodel \in 1..num_models /\ pmodel' # pmodel) =>
          /\ fate'[<<pframe, pmodel>>] # "unsubmitted"
          /\ \A m \in 1..num_models : fate[<<pframe, m>>] # "none" <=> m < pmodel
          /\ num_models > 1 => collectors[Len(collectors)].total_models_ = num_models]_vars

(***************************************************************************)
(* SpecCache: add_stream, remove_stream and add_frame called one after the *)
(* other (a call starts only when none is in progress).  add_frame is      *)
(* modelled in the steps its locks make: the map lookup, the ring-locked   *)
(* section, the update and the test of the global counter, and one step    *)
(* per iteration of evict_global_memory.                                   *)
(***************************************************************************)
MaxAdds == 3
SeqCallers == {1}

InitCacheWith(callers) ==
    /\ \E d \in Durations : duration_sec_ = d
    /\ \E mb \in MemoryLimitsMb : max_memory_bytes_ = max_memory_bytes(mb)
    /\ caches_ = [s \in Streams |-> NoRing]
    /\ rings = [r \in RingIds |-> StreamCache]
    /\ total_memory_ = 0
    /\ cpc = [t \in callers |-> "idle"]
    /\ cframe = [t \in callers |-> nullopt]
    /\ cref = [t \in callers |-> NoRing]
    /\ cevict = [t \in callers |-> 0]
    /\ cAdds = 0
    /\ inserted = [s \in Streams |-> <<>>]
    /\ mono = [s \in Streams |-> TRUE]
    /\ task_queue_ = BoundedQueue(1)
    /\ collectors = <<>>
    /\ QueueUnused
    /\ CollectorUnused
    /\ EngineUnused
    /\ StreamUnused
    /\ LockUnused
    /\ lastOp = NoOp

InitCache == InitCacheWith(SeqCallers)

AllIdle == \A t \in DOMAIN cpc : cpc[t] = "idle"

\* the references held by the map and by callers other than t
HeldRings(t) ==
    {caches_[s] : s \in Streams} \cup {cref[u] : u \in DOMAIN cref \ {t}}

\* make_shared<StreamCache>(): an object no one refers to
NewRing == CHOOSE r \in RingIds :
    /\ r \notin HeldRings(0)
    /\ \A q \in RingIds : q \notin HeldRings(0) => r <= q

\* the rings after reference r is released by caller t: the object is
\* destroyed when this was the last reference
Released(rs, r, t) ==
    IF r = NoRing \/ r \in HeldRings(t) THEN rs ELSE [rs EXCEPT ![r] = StreamCache]

\* get_cache(cam_id) followed by get_frame's search
get_frame(cam_id, timestamp_ms) ==
    IF caches_[cam_id] = NoRing THEN nullopt
    ELSE find_frame(rings[caches_[cam_id]].frames, timestamp_ms)

\* get_latest_frame(cam_id)
get_latest_frame(cam_id) ==
    IF caches_[cam_id] = NoRing THEN nullopt
    ELSE LET frames == rings[caches_[cam_id]].frames IN
         IF Len(frames) = 0 THEN nullopt ELSE Some(frames[Len(frames)])

\* int64_t, narrowed: the model's timestamps and differences are INT64_MIN..INT64_MAX
INT64_MAX == 8191
INT64_MIN == -INT64_MAX - 1
InInt64(v) == v >= INT64_MIN /\ v <= INT64_MAX

\* std::abs on int64_t
abs(v) == IF v < 0 THEN -v ELSE v

\* get_nearest_frame: the scan, from best = nullptr and best_diff = INT64_MAX
RECURSIVE nearest_scan(_, _, _, _)
nearest_scan(frames, timestamp_ms, best, best_diff) ==
    IF Len(frames) = 0 THEN best
    ELSE LET f == Head(frames)
             diff == abs(f.timestamp_ms - timestamp_ms)
         IN  IF diff < best_diff
             THEN nearest_scan(Tail(frames), timestamp_ms, Some(f), diff)
             ELSE nearest_scan(Tail(frames), timestamp_ms, best, best_diff)

\* the subtraction or std::abs of the scan overflows int64_t for some frame
\* (undefined behaviour)
nearest_overflows(frames, timestamp_ms) ==
    \E i \in 1..Len(frames) :
        LET d == frames[i].timestamp_ms - timestamp_ms IN ~InInt64(d) \/ ~InInt64(abs(d))

\* get_nearest_frame(cam_id, timestamp_ms): the values the call can return
\* (one, unless the scan has undefined behaviour)
get_nearest_frame(cam_id, timestamp_ms) ==
    IF caches_[cam_id] = NoRing THEN {nullopt}
    ELSE LET frames == rings[caches_[cam_id]].frames IN
         IF Len(frames) = 0 THEN {nullopt}
         ELSE IF nearest_overflows(frames, timestamp_ms)
         THEN {nullopt} \cup {Some(frames[i]) : i \in 1..Len(frames)}
         ELSE {nearest_scan(frames, timestamp_ms, nullopt, INT64_MAX)}

\* add_stream(cam_id)
KAddStream(s) ==
    /\ AllIdle
    /\ caches_[s] = NoRing
    /\ caches_' = [caches_ EXCEPT ![s] = NewRing]
    /\ lastOp' = [op |-> "add_stream", who |-> 0, arg |-> Some(s), ret |-> nullopt]
    /\ UNCHANGED <<duration_sec_, max_memory_bytes_, rings, total_memory_,
                   cpc, cframe, cref, cevict, cAdds, inserted, mono>>

\* remove_stream(cam_id): an unknown id changes nothing
KRemoveStream(s) ==
    /\ AllIdle
    /\ IF caches_[s] = NoRing
       THEN UNCHANGED <<caches_, rings, total_memory_, inserted, mono>>
       ELSE /\ total_memory_' = remove_stream_total(total_memory_, rings[caches_[s]])
            /\ caches_' = [caches_ EXCEPT ![s] = NoRing]
            /\ rings' = IF \E t \in DOMAIN cref : cref[t] = caches_[s]
                        THEN rings ELSE [rings EXCEPT ![caches_[s]] = StreamCache]
            /\ inserted' = [inserted EXCEPT ![s] = <<>>]
            /\ mono' = [mono EXCEPT ![s] = TRUE]
    /\ lastOp' = [op |-> "remove_stream", who |-> 0, arg |-> Some(s), ret |-> nullopt,
                  freed |-> total_memory_ - total_memory_']
    /\ UNCHANGED <<duration_sec_, max_memory_bytes_, cpc, cframe, cref, cevict, cAdds>>

\* add_frame(frame): get_or_create_cache(frame.cam_id) under map_mutex_
KAddBegin(t, frame) ==
    /\ AllIdle
    /\ cAdds < MaxAdds
    /\ cAdds' = cAdds + 1
    /\ LET r == IF caches_[frame.cam_id] = NoRing THEN NewRing ELSE caches_[frame.cam_id] IN
        /\ caches_' = [caches_ EXCEPT ![frame.cam_id] = r]
        /\ cref' = [cref EXCEPT ![t] = r]
    /\ cframe' = [cframe EXCEPT ![t] = Some(frame)]
    /\ cpc' = [cpc EXCEPT ![t] = "got"]
    /\ lastOp' = [op |-> "add_frame_call", who |-> t, arg |-> Some(frame), ret |-> nullopt]
    /\ UNCHANGED <<duration_sec_, max_memory_bytes_, rings, total_memory_, cevict,
                   inserted, mono>>

\* add_frame: under cache->mutex, evict_expired, push_back, memory_bytes += frame_size
KAddLocked(t) ==
    /\ cpc[t] = "got"
    /\ LET frame == value(cframe[t])
           e == evict_expired(rings[cref[t]], total_memory_, duration_sec_, frame.timestamp_ms)
           s == frame.cam_id
       IN  /\ rings' = [rings EXCEPT ![cref[t]] =
                          [frames |-> push_back(e.cache.frames, frame),
                           memory_bytes |-> e.cache.memory_bytes + frame.jpeg_size]]
           /\ total_memory_' = e.total
           /\ mono' = [mono EXCEPT ![s] =
                          mono[s] /\ (Len(inserted[s]) = 0 \/
                              inserted[s][Len(inserted[s])].timestamp_ms <= frame.timestamp_ms)]
           /\ inserted' = [inserted EXCEPT ![s] = Append(@, frame)]
    /\ cpc' = [cpc EXCEPT ![t] = "pushed"]
    /\ UNCHANGED <<duration_sec_, max_memory_bytes_, caches_, cframe, cref, cevict, cAdds, lastOp>>

\* add_frame: total_memory_ += frame_size
KAddTotal(t) ==
    /\ cpc[t] = "pushed"
    /\ total_memory_' = total_memory_ + value(cframe[t]).jpeg_size
    /\ cpc' = [cpc EXCEPT ![t] = "check"]
    /\ UNCHANGED <<duration_sec_, max_memory_bytes_, caches_, rings, cframe, cref, cevict,
                   cAdds, inserted, mono, lastOp>>

\* add_frame returns: the caller's reference to the StreamCache is released
KAddReturn(t) ==
    /\ cpc' = [cpc EXCEPT ![t] = "idle"]
    /\ rings' = Released(rings, cref[t], t)
    /\ cref' = [cref EXCEPT ![t] = NoRing]
    /\ cevict' = [cevict EXCEPT ![t] = 0]
    /\ cframe' = [cframe EXCEPT ![t] = nullopt]
    /\ lastOp' = [op |-> "add_frame", who |-> t, arg |-> cframe[t], ret |-> Some(cevict[t])]

\* add_frame: the test of the global counter; within budget the call returns
KAddCheck(t) ==
    /\ cpc[t] = "check"
    /\ IF max_memory_bytes_ > 0 /\ total_memory_ > max_memory_bytes_
       THEN /\ cpc' = [cpc EXCEPT ![t] = "evict"]
            /\ UNCHANGED <<rings, cframe, cref, cevict, lastOp>>
       ELSE KAddReturn(t)
    /\ UNCHANGED <<duration_sec_, max_memory_bytes_, caches_, total_memory_,
                   cAdds, inserted, mono>>

\* the streams whose head frame is the oldest of all heads; which of several
\* with equal heads the scan meets first depends on the unordered_map's order
OldestCams ==
    LET nonempty == {s \in Streams : caches_[s] # NoRing /\ Len(rings[caches_[s]].frames) > 0}
        head(s) == Head(rings[caches_[s]].frames).timestamp_ms
    IN  {s \in nonempty : \A o \in nonempty : head(s) <= head(o)}

\* evict_global_memory: one iteration of the loop
KEvictOne(t) ==
    /\ cpc[t] = "evict"
    /\ total_memory_ > max_memory_bytes_
    /\ \E oldest_cam \in OldestCams :
        LET e == evict_front(rings[caches_[oldest_cam]], total_memory_) IN
        /\ rings' = [rings EXCEPT ![caches_[oldest_cam]] = e.cache]
        /\ total_memory_' = e.total
    /\ cevict' = [cevict EXCEPT ![t] = @ + 1]
    /\ UNCHANGED <<duration_sec_, max_memory_bytes_, caches_, cpc, cframe, cref,
                   cAdds, inserted, mono, lastOp>>

\* evict_global_memory: the loop ends (within budget, or every ring is empty)
KEvictDone(t) ==
    /\ cpc[t] = "evict"
    /\ total_memory_ <= max_memory_bytes_ \/ OldestCams = {}
    /\ KAddReturn(t)
    /\ UNCHANGED <<duration_sec_, max_memory_bytes_, caches_, total_memory_,
                   cAdds, inserted, mono>>

Inputs == {CachedFrame(s, ts, z) : s \in Streams, ts \in Timestamps, z \in JpegSizes}

NextCache ==
    \/ \E s \in Streams : KAddStream(s)
    \/ \E s \in Streams : KRemoveStream(s)
    \/ \E t \in SeqCallers, frame \in Inputs : KAddBegin(t, frame)
    \/ \E t \in SeqCallers : KAddLocked(t)
    \/ \E t \in SeqCallers : KAddTotal(t)
    \/ \E t \in SeqCallers : KAddCheck(t)
    \/ \E t \in SeqCallers : KEvictOne(t)
    \/ \E t \in SeqCallers : KEvictDone(t)

SpecCache == InitCache /\ [][NextCache /\ UNCHANGED <<task_queue_, collectors, qvars, cvars, evars, svars, rvars, xvars, pvars, lvars, jvars>>]_vars

(***************************************************************************)
(* Claims about the cache                                                  *)
(***************************************************************************)
Registered == {s \in Streams : caches_[s] # NoRing}
Ring(s) == rings[caches_[s]]

RECURSIVE SumBytes(_)
SumBytes(ss) ==
    IF ss = {} THEN 0
    ELSE LET s == CHOOSE x \in ss : TRUE IN Ring(s).memory_bytes + SumBytes(ss \ {s})

\* C7: whenever no cache operation is in progress, after any sequence of
\* add_stream, add_frame and remove_stream calls, the global byte counter is
\* the sum of the per-stream byte counters and each per-stream counter is
\* the sum of the JPEG sizes of the frames in that ring.
C7_ByteAccounting ==
    AllIdle =>
        /\ total_memory_ = SumBytes(Registered)
        /\ \A s \in Registered : Ring(s).memory_bytes = SumSizes(Ring(s).frames)

\* a ring with frames was removed while the other stream keeps frames, after
\* frames were evicted
C7_Witness ==
    /\ AllIdle
    /\ lastOp.op = "remove_stream"
    /\ total_memory_ > 0
    /\ total_memory_ < SumSizes(inserted["cam1"]) + SumSizes(inserted["cam2"])

Sorted(frames) ==
    \A i, j \in 1..Len(frames) : i < j => frames[i].timestamp_ms <= frames[j].timestamp_ms

LastFrame == value(lastOp.arg)
LastThreshold == LastFrame.timestamp_ms - 1000 * duration_sec_
Kept(frame) == frame.timestamp_ms >= LastThreshold

\* C10: with retention D, no byte budget and frames added in increasing
\* timestamp order, when add_frame(f) has returned the ring of f's stream
\* holds exactly the added frames with timestamp >= f.timestamp_ms - 1000*D
\* (a frame exactly at the threshold is kept), and get_frame returns none
\* for the timestamp of every evicted frame.
C10_TimeEviction ==
    (/\ AllIdle
     /\ lastOp.op = "add_frame"
     /\ max_memory_bytes_ = 0
     /\ mono[LastFrame.cam_id])
    => LET s == LastFrame.cam_id IN
        /\ Ring(s).frames = SelectSeq(inserted[s], Kept)
        /\ \A i \in 1..Len(inserted[s]) :
              ~Kept(inserted[s][i]) =>
                  get_frame(s, inserted[s][i].timestamp_ms) = nullopt

\* three frames added in order: the first is evicted, the second, exactly
\* at the threshold, is kept
C10_Witness ==
    /\ AllIdle
    /\ lastOp.op = "add_frame"
    /\ max_memory_bytes_ = 0
    /\ LET s == LastFrame.cam_id IN
        /\ mono[s]
        /\ Len(inserted[s]) = 3
        /\ Len(Ring(s).frames) = 2
        /\ Ring(s).frames[1].timestamp_ms = LastThreshold

\* the timestamps the queries ask for: between two frames, midway between
\* two frames, a frame's own, and INT64_MAX before the earliest frame
QueryTs == {1000 - INT64_MAX, 1800, 2500, 4000}

\* C28: a remove_stream(id) call erases the ring of id with its frames and
\* lowers total_memory_ by exactly that ring's memory_bytes; every other
\* ring and its frames stay as they were; for an unknown id nothing changes;
\* and while id has no ring, get_frame, get_nearest_frame and
\* get_latest_frame return none for it.
C28_RemoveStream ==
    /\ [][(AllIdle /\ lastOp'.op = "remove_stream") =>
            LET s == value(lastOp'.arg) IN
            /\ caches_'[s] = NoRing
            /\ IF caches_[s] = NoRing
               THEN UNCHANGED <<caches_, rings, total_memory_>>
               ELSE /\ total_memory_' = total_memory_ - rings[caches_[s]].memory_bytes
                    /\ rings'[caches_[s]] = StreamCache
            /\ \A o \in Streams \ {s} :
                  /\ caches_'[o] = caches_[o]
                  /\ caches_[o] # NoRing => rings'[caches_[o]] = rings[caches_[o]]]_vars
    /\ [](\A s \in Streams : caches_[s] = NoRing =>
              /\ get_latest_frame(s) = nullopt
              /\ \A ts \in QueryTs \cup Timestamps :
                    get_frame(s, ts) = nullopt /\ get_nearest_frame(s, ts) = {nullopt})

\* remove_stream erased a ring that held frames while the other stream's ring
\* keeps its frames
C28_Witness ==
    /\ AllIdle
    /\ lastOp.op = "remove_stream"
    /\ lastOp.freed > 0
    /\ \E o \in Registered : Len(Ring(o).frames) > 0

(***************************************************************************)
(* SpecCacheQuery: the calls of SpecCache on a cache without a byte budget,*)
(* with frames of one size, and get_nearest_frame queries between them.    *)
(***************************************************************************)
QueryInputs == {CachedFrame(s, ts, 524288) : s \in Streams, ts \in Timestamps}

InitCacheQuery ==
    /\ InitCacheWith(SeqCallers)
    /\ max_memory_bytes_ = 0

\* get_nearest_frame(cam_id, timestamp_ms)
KGetNearest(s, ts) ==
    /\ AllIdle
    /\ \E r \in get_nearest_frame(s, ts) :
          lastOp' = [op |-> "get_nearest_frame", who |-> 0, arg |-> Some(<<s, ts>>), ret |-> r]
    /\ UNCHANGED kvars

NextCacheQuery ==
    \/ \E s \in Streams : KAddStream(s)
    \/ \E s \in Streams : KRemoveStream(s)
    \/ \E t \in SeqCallers, frame \in QueryInputs : KAddBegin(t, frame)
    \/ \E t \in SeqCallers : KAddLocked(t)
    \/ \E t \in SeqCallers : KAddTotal(t)
    \/ \E t \in SeqCallers : KAddCheck(t)
    \/ \E s \in Streams, ts \in QueryTs : KGetNearest(s, ts)

SpecCacheQuery ==
    InitCacheQuery
    /\ [][NextCacheQuery /\ UNCHANGED <<task_queue_, collectors, qvars, cvars, evars, svars, rvars, xvars, pvars, lvars, jvars>>]_vars

\* C29 as stated: get_nearest_frame(stream, ts) returns none exactly when the
\* stream has no ring or its ring is empty, and otherwise a frame of the
\* ring whose distance to ts is minimal over the frames in the ring.
C29_Original ==
    (AllIdle /\ lastOp.op = "get_nearest_frame") =>
        LET s == value(lastOp.arg)[1]
            ts == value(lastOp.arg)[2]
            r == lastOp.ret
            frames == IF caches_[s] = NoRing THEN <<>> ELSE Ring(s).frames
        IN  /\ r = nullopt <=> Len(frames) = 0
            /\ r # nullopt =>
                  /\ \E i \in 1..Len(frames) : frames[i] = value(r)
                  /\ \A i \in 1..Len(frames) :
                        abs(value(r).timestamp_ms - ts) <= abs(frames[i].timestamp_ms - ts)

\* the same for queries whose distance to every frame of the ring is below
\* INT64_MAX
C29_InRange ==
    (AllIdle /\ lastOp.op = "get_nearest_frame") =>
        LET s == value(lastOp.arg)[1]
            ts == value(lastOp.arg)[2]
            r == lastOp.ret
            frames == IF caches_[s] = NoRing THEN <<>> ELSE Ring(s).frames
        IN  (\A i \in 1..Len(frames) : abs(frames[i].timestamp_ms - ts) < INT64_MAX) =>
            /\ r = nullopt <=> Len(frames) = 0
            /\ r # nullopt =>
                  /\ \E i \in 1..Len(frames) : frames[i] = value(r)
                  /\ \A i \in 1..Len(frames) :
                        abs(value(r).timestamp_ms - ts) <= abs(frames[i].timestamp_ms - ts)

(***************************************************************************)
(* StreamManager and the pipeline thread decode_thread_func                *)
(* (src/stream/stream_manager.cpp).  A StreamContext is [frame_skip,       *)
(* state, running, stop_requested, decoded_frames, reconnect_count,        *)
(* last_error].  The thread's steps are cut at its reads of stop_requested *)
(* and at its calls of the decoder; a decoder call returns either success  *)
(* or failure, as the source of the stream decides (feed, faults).  The    *)
(* manager's calls are made one after the other by one caller; a call that *)
(* joins threads outside the mutex is in progress from its locked section  *)
(* (mpc.op) until its last join has returned.                              *)
(***************************************************************************)
FrameSkips == {1, 2, 3}
max_backoff_sec == 8
StopCalls == {"stop_stream", "stop_all", "shutdown"}

StreamContext(frame_skip) ==
    [frame_skip |-> frame_skip, state |-> "Stopped", running |-> FALSE,
     stop_requested |-> FALSE, decoded_frames |-> 0, reconnect_count |-> 0,
     last_error |-> ""]

\* add_stream / start_stream: the writes made before the thread is created
spawn(ctx) ==
    [ctx EXCEPT !.stop_requested = FALSE, !.running = TRUE, !.state = "Starting"]

\* start_stream: the statistics are reset
reset_stats(ctx) ==
    [ctx EXCEPT !.decoded_frames = 0, !.reconnect_count = 0, !.last_error = ""]

\* a stop_stream_internal that only looks
stop_stream_internal_unsignalled(ctx) == ctx

stop_stream_internal(ctx) ==
    IF ~ctx.running THEN ctx ELSE [ctx EXCEPT !.stop_requested = TRUE]

\* decode_thread_func without HAS_FFMPEG: the writes before running = false
no_decoder(ctx) == [ctx EXCEPT !.last_error = "FFmpeg not available", !.state = "Error"]

\* a failed open that is not counted
open_failed_uncounted(ctx) ==
    [ctx EXCEPT !.last_error = "Failed to open RTSP stream", !.state = "Reconnecting"]

\* decoder.open() returned false
open_failed(ctx) ==
    [ctx EXCEPT !.last_error = "Failed to open RTSP stream", !.state = "Reconnecting",
                !.reconnect_count = @ + 1]

\* decoder.open() returned true
open_succeeded(ctx) == [ctx EXCEPT !.state = "Running", !.last_error = ""]

\* a decode failure that sends the pipeline back to Starting
decode_failed_to_starting(ctx) ==
    [ctx EXCEPT !.last_error = "Decode failed or stream ended", !.state = "Starting",
                !.reconnect_count = @ + 1]

\* skip_frame() returned false or decode_frame() returned nullopt
decode_failed(ctx) ==
    [ctx EXCEPT !.last_error = "Decode failed or stream ended", !.state = "Reconnecting",
                !.reconnect_count = @ + 1]

\* a frame test that sends every frame through the full path
need_process_all(skip, local_frame_count) == TRUE

\* need_process of the decode loop
need_process(skip, local_frame_count) ==
    skip <= 1 \/ local_frame_count % skip = 0

\* a backoff that doubles without the cap
next_backoff_uncapped(backoff_sec) == backoff_sec * 2

\* backoff_sec = std::min(backoff_sec * 2, max_backoff_sec)
next_backoff(backoff_sec) == Min(backoff_sec * 2, max_backoff_sec)

NoThread == [pc |-> "none", local_frame_count |-> 0, backoff_sec |-> 1, is_open_ |-> FALSE]
NewThread == [NoThread EXCEPT !.pc = "start"]
NoHistory == [sessions |-> 0, full |-> 0, k |-> 0, fails |-> 0, ids |-> <<>>,
              i |-> 0, took_full |-> FALSE]
Idle(last, live) == [op |-> "idle", pending |-> <<>>, live |-> live, last |-> last]

\* the orders in which a loop over the map can visit the ids S
Orders(S) == {o \in [1..Cardinality(S) -> S] : \A i, j \in DOMAIN o : o[i] = o[j] => i = j}

InitStreams(ids, feeds, faultss, skips) ==
    /\ has_ffmpeg \in BOOLEAN
    /\ streams_ = <<>>
    /\ thr = [s \in ids |-> NoThread]
    /\ \E n \in feeds : feed = [s \in ids |-> n]
    /\ \E n \in faultss : faults = [s \in ids |-> n]
    /\ mpc = Idle("none", {})
    /\ frame_skips = skips
    /\ hist = [s \in ids |-> NoHistory]
    /\ RegistryUnused
    /\ task_queue_ = BoundedQueue(1)
    /\ collectors = <<>>
    /\ lastOp = NoOp
    /\ QueueUnused
    /\ CollectorUnused
    /\ EngineUnused
    /\ CacheUnused

Present == DOMAIN streams_

\* add_stream(config) with a new, non-empty id: the context is created and its thread started
MAddStream(s) ==
    /\ mpc.op = "idle" /\ s \notin Present
    /\ \E skip \in frame_skips :
          streams_' = (s :> spawn(StreamContext(skip))) @@ streams_
    /\ thr' = [thr EXCEPT ![s] = NewThread]
    /\ hist' = [hist EXCEPT ![s] = NoHistory]
    /\ mpc' = Idle("add_stream", {})
    /\ UNCHANGED <<frame_skips, has_ffmpeg, feed, faults>>

\* start_stream(id) on a stream that is not running: join the old thread
\* (the call waits for it under the mutex), reset, start a new thread
MStartStream(s) ==
    /\ mpc.op = "idle" /\ s \in Present
    /\ ~streams_[s].running
    /\ thr[s].pc \in {"none", "exited"}
    /\ streams_' = [streams_ EXCEPT ![s] = spawn(reset_stats(@))]
    /\ thr' = [thr EXCEPT ![s] = NewThread]
    /\ hist' = [hist EXCEPT ![s] = NoHistory]
    /\ mpc' = Idle("start_stream", {})
    /\ UNCHANGED <<frame_skips, has_ffmpeg, feed, faults>>

\* stop_stream(id): the locked section
MStopStream(s) ==
    /\ mpc.op = "idle" /\ s \in Present
    /\ streams_' = [streams_ EXCEPT ![s] = stop_stream_internal(@)]
    /\ mpc' = [op |-> "stop_stream", pending |-> <<s>>,
               live |-> {t \in {s} : streams_[t].running}, last |-> mpc.last]
    /\ UNCHANGED <<frame_skips, has_ffmpeg, thr, feed, faults, hist>>

\* stop_all() and shutdown(): the locked section
MStopAll(op) ==
    /\ mpc.op = "idle"
    /\ streams_' = [s \in Present |-> stop_stream_internal(streams_[s])]
    /\ \E o \in Orders(Present) :
          mpc' = [op |-> op, pending |-> o,
                  live |-> {t \in Present : streams_[t].running}, last |-> mpc.last]
    /\ UNCHANGED <<frame_skips, has_ffmpeg, thr, feed, faults, hist>>

\* the join of the next captured context returns (at once if its thread is not joinable)
MJoin ==
    /\ mpc.op \in StopCalls /\ mpc.pending # <<>>
    /\ LET s == Head(mpc.pending) IN
        /\ thr[s].pc \in {"none", "exited"}
        /\ thr' = [thr EXCEPT ![s].pc = "none"]
    /\ mpc' = [mpc EXCEPT !.pending = Tail(@)]
    /\ UNCHANGED <<frame_skips, has_ffmpeg, streams_, feed, faults, hist>>

\* the stop call returns
MReturn ==
    /\ mpc.op \in StopCalls /\ mpc.pending = <<>>
    /\ mpc' = Idle(mpc.op, mpc.live)
    /\ UNCHANGED <<frame_skips, has_ffmpeg, streams_, thr, feed, faults, hist>>

\* the thread starts: without FFmpeg it gives up, otherwise it sets its locals
TBegin(s) ==
    /\ thr[s].pc = "start"
    /\ IF has_ffmpeg
       THEN /\ thr' = [thr EXCEPT ![s] = [NewThread EXCEPT !.pc = "loop"]]
            /\ UNCHANGED streams_
       ELSE /\ streams_' = [streams_ EXCEPT ![s] = no_decoder(@)]
            /\ thr' = [thr EXCEPT ![s].pc = "finish"]
    /\ UNCHANGED <<frame_skips, has_ffmpeg, feed, faults, mpc, hist>>

\* the reconnect loop's test sees no stop request: state = Starting
TLoopOpen(s) ==
    /\ thr[s].pc = "loop" /\ ~streams_[s].stop_requested
    /\ streams_' = [streams_ EXCEPT ![s].state = "Starting"]
    /\ thr' = [thr EXCEPT ![s].pc = "open"]
    /\ UNCHANGED <<frame_skips, has_ffmpeg, feed, faults, mpc, hist>>

\* the reconnect loop's test sees the stop request: state = Stopped
TLoopStop(s) ==
    /\ thr[s].pc = "loop" /\ streams_[s].stop_requested
    /\ streams_' = [streams_ EXCEPT ![s].state = "Stopped"]
    /\ thr' = [thr EXCEPT ![s].pc = "finish"]
    /\ UNCHANGED <<frame_skips, has_ffmpeg, feed, faults, mpc, hist>>

\* decoder.open() succeeds
TOpenOk(s) ==
    /\ thr[s].pc = "open"
    /\ streams_' = [streams_ EXCEPT ![s] = open_succeeded(@)]
    /\ thr' = [thr EXCEPT ![s].pc = "decode", ![s].backoff_sec = 1, ![s].is_open_ = TRUE]
    /\ hist' = [hist EXCEPT ![s].sessions = @ + 1, ![s].k = 0, ![s].i = 0]
    /\ UNCHANGED <<frame_skips, has_ffmpeg, feed, faults, mpc>>

\* decoder.open() fails
TOpenFail(s) ==
    /\ thr[s].pc = "open" /\ faults[s] > 0
    /\ faults' = [faults EXCEPT ![s] = @ - 1]
    /\ streams_' = [streams_ EXCEPT ![s] = open_failed(@)]
    /\ thr' = [thr EXCEPT ![s].pc = "backoff_open"]
    /\ hist' = [hist EXCEPT ![s].k = @ + 1, ![s].fails = @ + 1]
    /\ UNCHANGED <<frame_skips, has_ffmpeg, feed, mpc>>

\* the wait after a failed open (cut short by a stop request), then the doubling
TBackoffOpen(s) ==
    /\ thr[s].pc = "backoff_open"
    /\ thr' = [thr EXCEPT ![s].pc = "loop", ![s].backoff_sec = next_backoff(@)]
    /\ UNCHANGED <<frame_skips, has_ffmpeg, streams_, feed, faults, mpc, hist>>

\* one iteration of the decode loop in which the decoder delivers the frame
TDecode(s) ==
    /\ thr[s].pc = "decode" /\ ~streams_[s].stop_requested
    /\ feed[s] > 0
    /\ feed' = [feed EXCEPT ![s] = @ - 1]
    /\ LET n == thr[s].local_frame_count + 1
           full == need_process(streams_[s].frame_skip, n)
           frame == DecodedFrame(streams_[s].decoded_frames + 1)
       IN  /\ thr' = [thr EXCEPT ![s].local_frame_count = n]
           /\ streams_' = [streams_ EXCEPT ![s].decoded_frames = @ + 1]
           /\ hist' = IF full
                      THEN [hist EXCEPT ![s].full = @ + 1,
                                        ![s].ids = Append(@, frame.frame_id),
                                        ![s].i = @ + 1, ![s].took_full = TRUE]
                      ELSE [hist EXCEPT ![s].i = @ + 1, ![s].took_full = FALSE]
    /\ UNCHANGED <<frame_skips, has_ffmpeg, faults, mpc>>

\* one iteration of the decode loop in which skip_frame / decode_frame fails
TDecodeFail(s) ==
    /\ thr[s].pc = "decode" /\ ~streams_[s].stop_requested
    /\ faults[s] > 0
    /\ faults' = [faults EXCEPT ![s] = @ - 1]
    /\ thr' = [thr EXCEPT ![s].local_frame_count = @ + 1, ![s].is_open_ = FALSE,
                          ![s].pc = "backoff_decode"]
    /\ streams_' = [streams_ EXCEPT ![s] = decode_failed(@)]
    /\ hist' = [hist EXCEPT ![s].k = @ + 1]
    /\ UNCHANGED <<frame_skips, has_ffmpeg, feed, mpc>>

\* the decode loop's test sees the stop request
TDecodeStop(s) ==
    /\ thr[s].pc = "decode" /\ streams_[s].stop_requested
    /\ thr' = [thr EXCEPT ![s].pc = "close"]
    /\ UNCHANGED <<frame_skips, has_ffmpeg, streams_, feed, faults, mpc, hist>>

\* decoder.close() after the decode loop
TClose(s) ==
    /\ thr[s].pc = "close"
    /\ thr' = [thr EXCEPT ![s].pc = "backoff_decode", ![s].is_open_ = FALSE]
    /\ UNCHANGED <<frame_skips, has_ffmpeg, streams_, feed, faults, mpc, hist>>

\* after the decode loop: without a stop request, the wait and the doubling
TBackoffDecode(s) ==
    /\ thr[s].pc = "backoff_decode"
    /\ thr' = [thr EXCEPT ![s].pc = "loop",
                          ![s].backoff_sec = IF streams_[s].stop_requested
                                             THEN @ ELSE next_backoff(@)]
    /\ UNCHANGED <<frame_skips, has_ffmpeg, streams_, feed, faults, mpc, hist>>

\* running = false, the last write of the thread
TFinish(s) ==
    /\ thr[s].pc = "finish"
    /\ streams_' = [streams_ EXCEPT ![s].running = FALSE]
    /\ thr' = [thr EXCEPT ![s].pc = "exited"]
    /\ UNCHANGED <<frame_skips, has_ffmpeg, feed, faults, mpc, hist>>

ThreadStep(s) ==
    /\ s \in DOMAIN thr
    /\ \/ TBegin(s)
       \/ TLoopOpen(s)
       \/ TLoopStop(s)
       \/ TOpenOk(s)
       \/ TOpenFail(s)
       \/ TBackoffOpen(s)
       \/ TDecode(s)
       \/ TDecodeFail(s)
       \/ TDecodeStop(s)
       \/ TClose(s)
       \/ TBackoffDecode(s)
       \/ TFinish(s)

NextStream ==
    \/ \E s \in DOMAIN thr : MAddStream(s)
    \/ \E s \in DOMAIN thr : MStartStream(s)
    \/ \E s \in DOMAIN thr : MStopStream(s)
    \/ MStopAll("stop_all")
    \/ MStopAll("shutdown")
    \/ MJoin
    \/ MReturn
    \/ \E s \in DOMAIN thr : TBegin(s)
    \/ \E s \in DOMAIN thr : TLoopOpen(s)
    \/ \E s \in DOMAIN thr : TLoopStop(s)
    \/ \E s \in DOMAIN thr : TOpenOk(s)
    \/ \E s \in DOMAIN thr : TOpenFail(s)
    \/ \E s \in DOMAIN thr : TBackoffOpen(s)
    \/ \E s \in DOMAIN thr : TDecode(s)
    \/ \E s \in DOMAIN thr : TDecodeFail(s)
    \/ \E s \in DOMAIN thr : TDecodeStop(s)
    \/ \E s \in DOMAIN thr : TClose(s)
    \/ \E s \in DOMAIN thr : TBackoffDecode(s)
    \/ \E s \in DOMAIN thr : TFinish(s)

StreamOthers == <<task_queue_, collectors, qvars, cvars, evars, kvars, lastOp, rvars, xvars, pvars, lvars, jvars>>

\* every thread that can take a step eventually takes one (decoder calls
\* return), and a join returns once its thread has exited
StreamFairness ==
    /\ \A s \in Streams : WF_vars(ThreadStep(s) /\ UNCHANGED StreamOthers)
    /\ WF_vars((MJoin \/ MReturn) /\ UNCHANGED StreamOthers)

(***************************************************************************)
(* SpecPipeline: one stream whose source delivers up to MaxFeed frames and *)
(* fails up to MaxFaults times, over any number of thread runs.            *)
(***************************************************************************)
MaxFeed == 3
MaxFaults == 4

InitPipeline == InitStreams({"cam1"}, {MaxFeed}, {MaxFaults}, FrameSkips)

SpecPipeline ==
    InitPipeline /\ [][NextStream /\ UNCHANGED StreamOthers]_vars /\ StreamFairness

(***************************************************************************)
(* Claims about the pipeline thread                                        *)
(***************************************************************************)
Abs(n) == IF n < 0 THEN -n ELSE n

\* C14: for a stream with frame_skip = K >= 1, at every moment of a run of
\* its pipeline thread the number of frames taken through the full path
\* differs from floor(decoded_frames / K) by at most the number of decoder
\* sessions opened so far in that run.
C14_FrameSkip ==
    \A s \in Present :
        Abs(hist[s].full - (streams_[s].decoded_frames \div streams_[s].frame_skip))
            <= hist[s].sessions

\* with K >= 2 a decode failure has shifted the count: a frame went through
\* the full path in a second session although fewer than K frames were decoded
C14_Witness ==
    \E s \in Present :
        /\ streams_[s].frame_skip >= 2 /\ hist[s].sessions >= 2
        /\ hist[s].full = 1
        /\ streams_[s].decoded_frames \div streams_[s].frame_skip = 0

\* C15 as stated: the frame numbers carried by the successive tasks, frame
\* results and cached frames of a stream (all three copy frame->frame_id) are
\* strictly increasing and contiguous.
C15_Original ==
    \A s \in Present :
        \A i \in 1..(Len(hist[s].ids) - 1) : hist[s].ids[i + 1] = hist[s].ids[i] + 1

\* C16: backoff_sec is always 1, 2, 4 or 8; it is 1 when the thread starts
\* and after every successful open; it is min(2^k, 8) at the open that
\* follows k consecutive failures (failed opens, or the decode failure that
\* ended the last session), and the wait after the k-th of them is
\* min(2^(k-1), 8) seconds.
C16_Backoff ==
    \A s \in DOMAIN thr :
        /\ thr[s].backoff_sec \in {1, 2, 4, 8}
        /\ thr[s].pc = "decode" => thr[s].backoff_sec = 1
        /\ thr[s].pc = "open" => thr[s].backoff_sec = Min(2^(hist[s].k), 8)
        /\ (thr[s].pc \in {"backoff_open", "backoff_decode"} /\ hist[s].k >= 1)
               => thr[s].backoff_sec = Min(2^(hist[s].k - 1), 8)

\* the fifth attempt after four consecutive failures: the doubling was capped
C16_Witness ==
    \E s \in Present :
        thr[s].pc = "open" /\ hist[s].k = 4 /\ thr[s].backoff_sec = 8

\* the stream has a decoder, no open of its present run has succeeded and no
\* stop is requested
NeverOpened(s) ==
    /\ has_ffmpeg /\ s \in Present
    /\ hist[s].sessions = 0 /\ ~streams_[s].stop_requested

\* C17: while every open attempt of a stream has failed and no stop is
\* requested, its state is Starting or Reconnecting (never Running, Stopped
\* or Error), reconnect_count equals the number of failed attempts,
\* last_error is non-empty once an attempt has failed, and every attempt
\* that fails is followed by Reconnecting with reconnect_count one higher.
C17_CannotOpen ==
    /\ [](\A s \in Streams : NeverOpened(s) =>
            /\ streams_[s].state \in {"Starting", "Reconnecting"}
            /\ streams_[s].reconnect_count = hist[s].fails
            /\ hist[s].fails >= 1 => streams_[s].last_error # "")
    /\ \A s \in Streams : \A n \in 0..(MaxFaults - 1) :
          (NeverOpened(s) /\ thr[s].pc = "open" /\ streams_[s].reconnect_count = n
              /\ faults[s] > 0)
          ~> \/ ~NeverOpened(s)
             \/ /\ streams_[s].state = "Reconnecting"
                /\ streams_[s].reconnect_count = n + 1

\* four attempts have failed in a row and the pipeline is Reconnecting again
C17_Witness ==
    \E s \in Present :
        /\ NeverOpened(s) /\ streams_[s].state = "Reconnecting"
        /\ streams_[s].reconnect_count = 4 /\ streams_[s].last_error # ""

\* the state changes C18 lists
ClaimedMoves ==
    {<<"Stopped", "Starting">>, <<"Starting", "Running">>, <<"Starting", "Reconnecting">>,
     <<"Running", "Reconnecting">>, <<"Reconnecting", "Starting">>,
     <<"Reconnecting", "Running">>, <<"Starting", "Stopped">>, <<"Running", "Stopped">>,
     <<"Reconnecting", "Stopped">>}

\* the state changes the code makes
CodeMoves ==
    (ClaimedMoves \ {<<"Reconnecting", "Running">>})
        \cup {<<"Starting", "Error">>, <<"Error", "Starting">>}

\* the changes of state this step makes to the streams that stay in the map
Moves ==
    {<<streams_[s].state, streams_'[s].state>> :
        s \in {t \in Present \cap DOMAIN streams_' : streams_'[t].state # streams_[t].state}}

\* C18 as stated: every change of state is one of the listed ones (or enters
\* Error), Running only while the decoder session is open, Error only in a
\* build without a decoder.
C18_Original ==
    /\ [][Moves \subseteq ClaimedMoves \cup {<<"Starting", "Error">>}]_vars
    /\ [](\A s \in Present : streams_[s].state = "Running" => thr[s].is_open_)
    /\ [](\A s \in Present : streams_[s].state = "Error" => ~has_ffmpeg)

\* C18 as amended: the changes are those listed, without Reconnecting to
\* Running, with Starting to Error and Error to Starting (start_stream on a
\* stream in Error) in a build without a decoder; the state is Running while
\* the session is open and, after a stop request, until the thread writes
\* Stopped just after closing the decoder.
C18_StateMachine ==
    /\ [][Moves \subseteq CodeMoves]_vars
    /\ [][(Moves \cap {<<"Starting", "Error">>, <<"Error", "Starting">>} # {})
              => ~has_ffmpeg]_vars
    /\ [](\A s \in Present :
            streams_[s].state = "Running" =>
                \/ thr[s].is_open_
                \/ streams_[s].stop_requested /\ thr[s].pc \in {"backoff_decode", "loop"})
    /\ [](\A s \in Present : streams_[s].state = "Error" => ~has_ffmpeg)

\* a session ended by a decode failure was followed by a retry that opened
\* again, and the stream was then stopped while Running
C18_Witness ==
    \E s \in Present :
        /\ hist[s].sessions >= 2 /\ streams_[s].state = "Stopped"
        /\ streams_[s].reconnect_count >= 1 /\ ~streams_[s].running

(***************************************************************************)
(* SpecManager: two streams of frame_skip 1, each with a source that       *)
(* delivers one frame and fails once, and the manager's calls made one     *)
(* after the other.                                                        *)
(***************************************************************************)
InitManager == InitStreams(Streams, {1}, {1}, {1})

SpecManager ==
    InitManager /\ [][NextStream /\ UNCHANGED StreamOthers]_vars /\ StreamFairness

ManagerCallers == {1, 2}
ModelPaths == {1, 2}
Loadable == {1}

StreamConfig(cam_id, models) == [cam_id |-> cam_id, frame_skip |-> 1, models |-> models]

\* the configurations passed to add_stream: one per id (the empty id
\* included) with a model that loads, and one with a model that does not
Configs ==
    {StreamConfig(id, {mp}) : id \in Streams \cup {""}, mp \in Loadable}
        \cup {StreamConfig("cam1", {mp}) : mp \in ModelPaths \ Loadable}

RIdle == [pc |-> "idle", op |-> "none", arg |-> nullopt, ctx |-> nullopt, snap |-> {}]

\* an add_stream that only rejects the empty id
add_stream_rejects_empty_only(streams, cfg) == cfg.cam_id = ""

\* add_stream: the two tests at the head of the locked section
add_stream_rejects(streams, cfg) ==
    cfg.cam_id = "" \/ cfg.cam_id \in DOMAIN streams

\* InferenceEngine::load_models(models): each path not yet loaded is loaded
\* if load_model succeeds, and a context of it is then created for every
\* worker; ret is all_ok
load_models(loaded, ctxs, paths) ==
    LET new == (paths \ loaded) \cap Loadable IN
    [models |-> loaded \cup new,
     ctxs |-> [w \in DOMAIN ctxs |-> ctxs[w] \cup new],
     ret |-> (paths \ loaded) \subseteq Loadable]

\* get_all_configs(): the configurations held in streams_
get_all_configs(streams) == {streams[id].config : id \in DOMAIN streams}

\* a remove_stream that leaves the entry in the map
erase_nothing(streams, id) == streams

\* streams_.erase(it)
erase(streams, id) == [k \in DOMAIN streams \ {id} |-> streams[k]]

InitRegistry ==
    /\ LockUnused
    /\ saved = {}
    /\ rpc = [c \in ManagerCallers |-> RIdle]
    /\ rRemoved = {}
    /\ has_ffmpeg = TRUE
    /\ streams_ = <<>>
    /\ thr = [s \in Streams |-> NoThread]
    /\ feed = <<>>
    /\ faults = <<>>
    /\ mpc = <<>>
    /\ frame_skips = {1}
    /\ hist = <<>>
    /\ initialized_ = TRUE
    /\ pub_initialized_ = TRUE
    /\ sdpc = 0
    /\ wpc = [w \in Workers |-> "idle"]
    /\ wtask = [w \in Workers |-> nullopt]
    /\ wout = [w \in Workers |-> nullopt]
    /\ stop_requested_ = [w \in Workers |-> FALSE]
    /\ processed_count_ = [w \in Workers |-> 0]
    /\ contexts_ = [w \in Workers |-> {}]
    /\ models_ = {}
    /\ sdBusy = FALSE
    /\ num_models = 0
    /\ pframe = 0
    /\ pmodel = 0
    /\ sink = <<>>
    /\ fate = <<>>
    /\ duration_sec_ = 1
    /\ max_memory_bytes_ = 0
    /\ caches_ = [s \in Streams |-> NoRing]
    /\ rings = [r \in RingIds |-> StreamCache]
    /\ total_memory_ = 0
    /\ cpc = <<>>
    /\ cframe = <<>>
    /\ cref = <<>>
    /\ cevict = <<>>
    /\ cAdds = 0
    /\ inserted = <<>>
    /\ mono = <<>>
    /\ task_queue_ = BoundedQueue(1)
    /\ collectors = <<>>
    /\ ContextsUnused
    /\ QueueUnused
    /\ CollectorUnused
    /\ lastOp = NoOp

\* add_stream(config): the locked section.  A rejected call returns false
\* from it; otherwise the models are loaded (the result of load_models is
\* not looked at), the ring is registered, the thread is started and the
\* context is inserted.  The call waits while the thread of a removed
\* context of the same id has not been joined: the model keeps one thread
\* per id.
RAddStream(c, cfg) ==
    /\ rpc[c].pc = "idle"
    /\ \A d \in ManagerCallers : ~(rpc[d].pc = "join" /\ rpc[d].arg = Some(cfg.cam_id))
    /\ IF add_stream_rejects(streams_, cfg)
       THEN /\ lastOp' = [op |-> "add_stream", who |-> c, arg |-> Some(cfg), ret |-> Some(FALSE)]
            /\ UNCHANGED <<streams_, thr, models_, contexts_, caches_, rpc, rRemoved>>
       ELSE LET l == load_models(models_, contexts_, cfg.models)
                ctx == spawn(StreamContext(cfg.frame_skip)) @@ [config |-> cfg]
            IN  /\ models_' = l.models
                /\ contexts_' = l.ctxs
                /\ caches_' = IF caches_[cfg.cam_id] = NoRing
                              THEN [caches_ EXCEPT ![cfg.cam_id] = NewRing] ELSE caches_
                /\ thr' = [thr EXCEPT ![cfg.cam_id] = NewThread]
                /\ streams_' = (cfg.cam_id :> ctx) @@ streams_
                /\ rpc' = [rpc EXCEPT ![c] = [RIdle EXCEPT !.pc = "save", !.op = "add_stream",
                                                             !.arg = Some(cfg)]]
                /\ rRemoved' = rRemoved \ {cfg.cam_id}
                /\ UNCHANGED lastOp
    /\ UNCHANGED <<rings, total_memory_, saved>>

\* remove_stream(id): the locked section.  An id that is not found returns
\* false; otherwise the context is told to stop, moved out and erased.
RRemoveStream(c, id) ==
    /\ rpc[c].pc = "idle"
    /\ IF id \notin DOMAIN streams_
       THEN /\ lastOp' = [op |-> "remove_stream", who |-> c, arg |-> Some(id), ret |-> Some(FALSE)]
            /\ UNCHANGED <<streams_, rpc>>
       ELSE /\ streams_' = erase(streams_, id)
            /\ rpc' = [rpc EXCEPT ![c] = [RIdle EXCEPT !.pc = "join", !.op = "remove_stream",
                                                         !.arg = Some(id),
                                                         !.ctx = Some(stop_stream_internal(streams_[id]))]]
            /\ UNCHANGED lastOp
    /\ UNCHANGED <<thr, models_, contexts_, caches_, rings, total_memory_, saved, rRemoved>>

\* decode_thread_func of the removed context sees stop_requested and ends
RThreadExit(c) ==
    /\ rpc[c].pc = "join"
    /\ thr[value(rpc[c].arg)].pc = "start"
    /\ value(rpc[c].ctx).stop_requested
    /\ thr' = [thr EXCEPT ![value(rpc[c].arg)].pc = "exited"]
    /\ rpc' = [rpc EXCEPT ![c].ctx = Some([value(@) EXCEPT !.running = FALSE,
                                                            !.state = "Stopped"])]
    /\ UNCHANGED <<streams_, models_, contexts_, caches_, rings, total_memory_, saved,
                   rRemoved, lastOp>>

\* remove_stream: ctx_to_destroy->decode_thread.join() returns
RJoin(c) ==
    /\ rpc[c].pc = "join"
    /\ thr[value(rpc[c].arg)].pc \in {"none", "exited"}
    /\ thr' = [thr EXCEPT ![value(rpc[c].arg)].pc = "none"]
    /\ rpc' = [rpc EXCEPT ![c].pc = "uncache"]
    /\ UNCHANGED <<streams_, models_, contexts_, caches_, rings, total_memory_, saved,
                   rRemoved, lastOp>>

\* remove_stream: cache_->remove_stream(cam_id)
RUncache(c) ==
    /\ rpc[c].pc = "uncache"
    /\ LET id == value(rpc[c].arg) IN
       IF caches_[id] = NoRing
       THEN UNCHANGED <<caches_, rings, total_memory_>>
       ELSE /\ total_memory_' = remove_stream_total(total_memory_, rings[caches_[id]])
            /\ caches_' = [caches_ EXCEPT ![id] = NoRing]
            /\ rings' = [rings EXCEPT ![caches_[id]] = StreamCache]
    /\ rpc' = [rpc EXCEPT ![c].pc = "save"]
    /\ UNCHANGED <<streams_, thr, models_, contexts_, saved, rRemoved, lastOp>>

\* save_configs: get_all_configs() takes the snapshot under the mutex
RSaveSnapshot(c) ==
    /\ rpc[c].pc = "save"
    /\ rpc' = [rpc EXCEPT ![c].pc = "write", ![c].snap = get_all_configs(streams_)]
    /\ UNCHANGED <<streams_, thr, models_, contexts_, caches_, rings, total_memory_, saved,
                   rRemoved, lastOp>>

\* save_configs: ConfigManager::save_streams writes the snapshot; the call
\* returns true and the moved-out context is destroyed
RSaveWrite(c) ==
    /\ rpc[c].pc = "write"
    /\ saved' = rpc[c].snap
    /\ rpc' = [rpc EXCEPT ![c] = RIdle]
    /\ rRemoved' = IF rpc[c].op = "remove_stream" /\ value(rpc[c].arg) \notin DOMAIN streams_
                   THEN rRemoved \cup {value(rpc[c].arg)} ELSE rRemoved
    /\ lastOp' = [op |-> rpc[c].op, who |-> c, arg |-> rpc[c].arg, ret |-> Some(TRUE)]
    /\ UNCHANGED <<streams_, thr, models_, contexts_, caches_, rings, total_memory_>>

NextRegistry ==
    \/ \E c \in ManagerCallers, cfg \in Configs : RAddStream(c, cfg)
    \/ \E c \in ManagerCallers, id \in Streams : RRemoveStream(c, id)
    \/ \E c \in ManagerCallers : RThreadExit(c)
    \/ \E c \in ManagerCallers : RJoin(c)
    \/ \E c \in ManagerCallers : RUncache(c)
    \/ \E c \in ManagerCallers : RSaveSnapshot(c)
    \/ \E c \in ManagerCallers : RSaveWrite(c)

RegistryOthers ==
    <<task_queue_, collectors, qvars, cvars,
      initialized_, sdpc, wpc, wtask, wout, stop_requested_, processed_count_,
      num_models, pframe, pmodel, sink, fate, pub_initialized_, sdBusy,
      duration_sec_, max_memory_bytes_, cpc, cframe, cref, cevict, cAdds, inserted, mono,
      has_ffmpeg, feed, faults, mpc, frame_skips, hist, xvars, pvars, lvars, jvars>>

(***************************************************************************)
(* SpecRegistry: two callers making add_stream and remove_stream calls     *)
(* that may overlap, on an initialised engine and an empty cache.          *)
(***************************************************************************)
SpecRegistry == InitRegistry /\ [][NextRegistry /\ UNCHANGED RegistryOthers]_vars

RegistryIdle == \A c \in ManagerCallers : rpc[c].pc = "idle"

\* the registry state an add_stream or remove_stream call can change
RegistryState == <<streams_, thr, models_, contexts_, caches_, rings, total_memory_, saved, rpc>>

\* caller c's add_stream call inserts a context in this step
Inserts(c) == rpc[c].pc = "idle" /\ rpc'[c].pc = "save" /\ rpc'[c].op = "add_stream"

\* caller c's remove_stream call erases a context in this step
Erases(c) == rpc[c].pc = "idle" /\ rpc'[c].pc = "join" /\ rpc'[c].op = "remove_stream"

\* C23: an add_stream call inserts a context only for a non-empty id that
\* is not in the map; a call that returns false was made with the empty id
\* or an id in the map and leaves the stream map, the threads, the loaded
\* models and worker contexts, the cache rings and the persisted list as
\* they were.
C23_AddStreamRejects ==
    /\ [][\A c \in ManagerCallers : Inserts(c) =>
            LET cfg == value(rpc'[c].arg) IN
            cfg.cam_id # "" /\ cfg.cam_id \notin DOMAIN streams_]_vars
    /\ [][(lastOp' # lastOp /\ lastOp'.op = "add_stream" /\ lastOp'.ret = Some(FALSE)) =>
            LET cfg == value(lastOp'.arg) IN
            /\ cfg.cam_id = "" \/ cfg.cam_id \in DOMAIN streams_
            /\ UNCHANGED RegistryState]_vars
    /\ []("" \notin DOMAIN streams_)

\* an add_stream call for an id in the map, with a configuration other than
\* the one held, has returned false
C23_Witness ==
    /\ lastOp.op = "add_stream" /\ lastOp.ret = Some(FALSE)
    /\ LET cfg == value(lastOp.arg) IN
        /\ cfg.cam_id \in DOMAIN streams_
        /\ streams_[cfg.cam_id].config # cfg

\* C24 as stated: an add_stream call creates the stream only if the loading
\* of every model its configuration refers to succeeded.
C24_Original ==
    [][\A c \in ManagerCallers : Inserts(c) =>
          load_models(models_, contexts_, value(rpc'[c].arg).models).ret]_vars

\* C25 as stated: whenever no add_stream or remove_stream call is in
\* progress, the persisted list is the set of configurations held in the
\* stream map.
C25_Original == RegistryIdle => saved = get_all_configs(streams_)

\* C27: a remove_stream(id) call erases the context of id; an id once erased
\* comes back into the map only by an add_stream call for it; so a
\* remove_stream(id) call made after a remove_stream(id) has returned true,
\* with no add_stream(id) inserting since, does not find id: it returns
\* false and leaves the stream map, the cache rings and the persisted list
\* as they were.
C27_RemoveTwice ==
    /\ [][\A c \in ManagerCallers : Erases(c) =>
            LET id == value(rpc'[c].arg) IN
            id \in DOMAIN streams_ /\ id \notin DOMAIN streams_' /\ id \notin rRemoved]_vars
    /\ [][\A id \in Streams : (id \notin DOMAIN streams_ /\ id \in DOMAIN streams_') =>
            \E c \in ManagerCallers : Inserts(c) /\ value(rpc'[c].arg).cam_id = id]_vars
    /\ [][(lastOp' # lastOp /\ lastOp'.op = "remove_stream" /\ lastOp'.ret = Some(FALSE)) =>
            /\ value(lastOp'.arg) \notin DOMAIN streams_
            /\ UNCHANGED RegistryState]_vars
    /\ [](\A id \in rRemoved : id \notin DOMAIN streams_)

\* no call is in progress and the last one was a remove_stream(id) that
\* returned false, made after a remove_stream(id) that had returned true
C27_Witness ==
    /\ RegistryIdle
    /\ lastOp.op = "remove_stream" /\ lastOp.ret = Some(FALSE)
    /\ value(lastOp.arg) \in rRemoved

(***************************************************************************)
(* Worker contexts: pre-creation by the caller of load_models and lazy     *)
(* creation by the worker thread, one access of contexts_ at a time.       *)
(* contexts_ has no lock; ModelManager's mutex_ covers models_ only.       *)
(***************************************************************************)
LIdle == [pc |-> "idle", model |-> 0, worker |-> 0, ctx |-> 0]
GIdle == [pc |-> "idle", model |-> 0, ctx |-> 0]

\* the most contexts created for one worker and one model: one by the
\* caller of load_models, one by the worker thread, and one more by the
\* worker thread after each insertion it lost, which takes a visit of the
\* load_models loop to the worker
MaxDups == Cardinality(ModelPaths) + 2

\* rknn_dup_context: a handle that no context in dups has, numbered by the
\* worker and the model it is created for
dup_context(dups, w, model) ==
    ((w - 1) * Cardinality(ModelPaths) + (model - 1)) * MaxDups
        + Cardinality({d \in dups : d.worker = w /\ d.model = model}) + 1

\* ModelManager::create_worker_context: a new handle duplicated from the
\* loaded model's master context; 0 if the model is not loaded or the
\* duplication fails (dup_ok: rknn_dup_context succeeds)
create_worker_context(models, dups, w, model, dup_ok) ==
    IF model \in models /\ dup_ok THEN dup_context(dups, w, model) ELSE 0

\* load_models: the loop over workers_ goes on with the next worker
NextWorker(l) ==
    IF l.worker = NumWorkers THEN LIdle
    ELSE [l EXCEPT !.pc = "find", !.worker = @ + 1, !.ctx = 0]

InitContexts ==
    /\ ctx_of = [w \in Workers |-> [m \in ModelPaths |-> 0]]
    /\ dup_ctxs = {}
    /\ lpc = LIdle
    /\ gpc = [w \in Workers |-> GIdle]
    /\ models_ = {}
    /\ initialized_ = TRUE
    /\ pub_initialized_ = TRUE
    /\ sdpc = 0
    /\ wpc = [w \in Workers |-> "idle"]
    /\ wtask = [w \in Workers |-> nullopt]
    /\ wout = [w \in Workers |-> nullopt]
    /\ stop_requested_ = [w \in Workers |-> FALSE]
    /\ processed_count_ = [w \in Workers |-> 0]
    /\ contexts_ = [w \in Workers |-> {}]
    /\ sdBusy = FALSE
    /\ num_models = 0
    /\ pframe = 0
    /\ pmodel = 0
    /\ sink = <<>>
    /\ fate = <<>>
    /\ task_queue_ = BoundedQueue(1)
    /\ collectors = <<>>
    /\ lastOp = NoOp
    /\ PostUnused
    /\ QueueUnused
    /\ CollectorUnused
    /\ CacheUnused
    /\ saved = {}
    /\ rpc = <<>>
    /\ rRemoved = {}
    /\ has_ffmpeg = TRUE
    /\ streams_ = <<>>
    /\ thr = <<>>
    /\ feed = <<>>
    /\ faults = <<>>
    /\ mpc = <<>>
    /\ frame_skips = {}
    /\ hist = <<>>

\* load_models, one binding: a model that is loaded is skipped; one that
\* is not is loaded (loaded: load_model succeeds) and the loop over the
\* workers starts, or the call goes on without it
XLoadModel(m, loaded) ==
    /\ lpc.pc = "idle"
    /\ IF m \notin models_ /\ loaded
       THEN /\ models_' = models_ \cup {m}
            /\ lpc' = [pc |-> "find", model |-> m, worker |-> 1, ctx |-> 0]
            /\ UNCHANGED lastOp
       ELSE /\ lastOp' = [op |-> "load_models", who |-> 0, arg |-> Some(m),
                          ret |-> Some(m \in models_)]
            /\ UNCHANGED <<models_, lpc>>
    /\ UNCHANGED <<ctx_of, dup_ctxs, gpc>>

\* pre_create_context: contexts_.count(model_path)
XPreFind ==
    /\ lpc.pc = "find"
    /\ lpc' = IF ctx_of[lpc.worker][lpc.model] # 0 THEN NextWorker(lpc)
              ELSE [lpc EXCEPT !.pc = "create"]
    /\ UNCHANGED <<ctx_of, dup_ctxs, gpc, models_, lastOp>>

\* pre_create_context: create_worker_context
XPreCreate(dup_ok) ==
    /\ lpc.pc = "create"
    /\ LET ctx == create_worker_context(models_, dup_ctxs, lpc.worker, lpc.model, dup_ok)
       IN  IF ctx = 0
           THEN /\ lpc' = NextWorker(lpc)
                /\ UNCHANGED dup_ctxs
           ELSE /\ dup_ctxs' = dup_ctxs \cup
                        {[ctx |-> ctx, worker |-> lpc.worker, model |-> lpc.model]}
                /\ lpc' = [lpc EXCEPT !.pc = "assign", !.ctx = ctx]
    /\ UNCHANGED <<ctx_of, gpc, models_, lastOp>>

\* pre_create_context: contexts_[model_path] = ctx
XPreAssign ==
    /\ lpc.pc = "assign"
    /\ ctx_of' = [ctx_of EXCEPT ![lpc.worker][lpc.model] = lpc.ctx]
    /\ lpc' = NextWorker(lpc)
    /\ UNCHANGED <<dup_ctxs, gpc, models_, lastOp>>

\* get_or_create_context, called by process_task on the worker thread for
\* the model of its task: contexts_.find(model_path)
XLazyFind(w, m) ==
    /\ gpc[w].pc = "idle"
    /\ IF ctx_of[w][m] # 0
       THEN UNCHANGED gpc
       ELSE gpc' = [gpc EXCEPT ![w] = [pc |-> "create", model |-> m, ctx |-> 0]]
    /\ UNCHANGED <<ctx_of, dup_ctxs, lpc, models_, lastOp>>

\* get_or_create_context: create_worker_context
XLazyCreate(w, dup_ok) ==
    /\ gpc[w].pc = "create"
    /\ LET ctx == create_worker_context(models_, dup_ctxs, w, gpc[w].model, dup_ok)
       IN  IF ctx = 0
           THEN /\ gpc' = [gpc EXCEPT ![w] = GIdle]
                /\ UNCHANGED dup_ctxs
           ELSE /\ dup_ctxs' = dup_ctxs \cup
                        {[ctx |-> ctx, worker |-> w, model |-> gpc[w].model]}
                /\ gpc' = [gpc EXCEPT ![w].pc = "assign", ![w].ctx = ctx]
    /\ UNCHANGED <<ctx_of, lpc, models_, lastOp>>

\* get_or_create_context: contexts_[model_path] = ctx
XLazyAssign(w) ==
    /\ gpc[w].pc = "assign"
    /\ ctx_of' = [ctx_of EXCEPT ![w][gpc[w].model] = gpc[w].ctx]
    /\ gpc' = [gpc EXCEPT ![w] = GIdle]
    /\ UNCHANGED <<dup_ctxs, lpc, models_, lastOp>>

\* the two assignments to one worker's contexts_ made at the same time, by
\* the caller of load_models and by the worker thread: a data race on the
\* unordered_map.  Any of the two insertions may be lost, and of two
\* insertions of one key either may stay.
XRaceAssign(w) ==
    /\ lpc.pc = "assign" /\ lpc.worker = w
    /\ gpc[w].pc = "assign"
    /\ LET written == {[model |-> lpc.model, ctx |-> lpc.ctx],
                       [model |-> gpc[w].model, ctx |-> gpc[w].ctx]}
       IN  \E kept \in SUBSET written :
             /\ \A j, k \in kept : j.model = k.model => j = k
             /\ ctx_of' = [ctx_of EXCEPT ![w] =
                    [m \in ModelPaths |->
                        IF \E k \in kept : k.model = m
                        THEN (CHOOSE k \in kept : k.model = m).ctx
                        ELSE ctx_of[w][m]]]
    /\ lpc' = NextWorker(lpc)
    /\ gpc' = [gpc EXCEPT ![w] = GIdle]
    /\ UNCHANGED <<dup_ctxs, models_, lastOp>>

NextContexts ==
    \/ \E m \in ModelPaths, loaded \in BOOLEAN : XLoadModel(m, loaded)
    \/ XPreFind
    \/ \E dup_ok \in BOOLEAN : XPreCreate(dup_ok)
    \/ XPreAssign
    \/ \E w \in Workers, m \in ModelPaths : XLazyFind(w, m)
    \/ \E w \in Workers, dup_ok \in BOOLEAN : XLazyCreate(w, dup_ok)
    \/ \E w \in Workers : XLazyAssign(w)
    \/ \E w \in Workers : XRaceAssign(w)

ContextsOthers ==
    <<task_queue_, collectors, qvars, cvars,
      initialized_, sdpc, wpc, wtask, wout, stop_requested_, processed_count_,
      num_models, pframe, pmodel, sink, fate, pub_initialized_, contexts_, sdBusy,
      kvars, svars, rvars, pvars, lvars, jvars>>

(***************************************************************************)
(* SpecContexts: one thread calling load_models while the worker threads   *)
(* look up and create the contexts of the models of their tasks.           *)
(***************************************************************************)
SpecContexts == InitContexts /\ [][NextContexts /\ UNCHANGED ContextsOthers]_vars

\* no context handle is in the contexts_ of two workers
NoSharedHandle ==
    \A w1, w2 \in Workers, m1, m2 \in ModelPaths :
        (w1 # w2 /\ ctx_of[w1][m1] # 0) => ctx_of[w1][m1] # ctx_of[w2][m2]

\* C30 as stated: no context handle is held by two workers, and at most
\* one context has been created for a worker and a model, whatever the
\* interleaving of the pre-creation by the caller of load_models and the
\* lazy creation by the worker thread.
C30_Original ==
    /\ NoSharedHandle
    /\ \A w \in Workers, m \in ModelPaths :
          Cardinality({d \in dup_ctxs : d.worker = w /\ d.model = m}) <= 1

\* C32 as stated: in each decoder session the i-th raw frame takes the
\* full path exactly when K <= 1 or i mod K = 0, i counting from 1 at the
\* start of the session.
C32_Original ==
    \A s \in Present :
        hist[s].i > 0 =>
            (hist[s].took_full <=>
                (streams_[s].frame_skip <= 1 \/ hist[s].i % streams_[s].frame_skip = 0))

(***************************************************************************)
(* PostProcessor::nms.  Coordinates and confidences are small integers,    *)
(* which float represents exactly; an IoU is compared with the threshold   *)
(* as a ratio of integers.                                                 *)
(***************************************************************************)
MaxDets == 3

BBox(x1, y1, x2, y2) == [x1 |-> x1, y1 |-> y1, x2 |-> x2, y2 |-> y2]

\* two boxes that overlap, one that overlaps the second and touches the
\* first along an edge, and an empty box apart from all of them
Boxes == {BBox(0, 0, 2, 2), BBox(1, 1, 3, 3), BBox(2, 0, 4, 2), BBox(5, 5, 5, 5)}

Detection(class_id, confidence, bbox) ==
    [class_id |-> class_id, confidence |-> confidence, bbox |-> bbox]

Detections == {Detection(c, p, b) : c \in {0, 1}, p \in {1, 2}, b \in Boxes}

\* the thresholds 0, 1/2 and 1
Thresholds == {[num |-> 0, den |-> 1], [num |-> 1, den |-> 2], [num |-> 1, den |-> 1]}

\* PostProcessor::iou: the area of the intersection and of the union
inter_area(a, b) ==
    Max(0, Min(a.x2, b.x2) - Max(a.x1, b.x1)) * Max(0, Min(a.y2, b.y2) - Max(a.y1, b.y1))

union_area(a, b) ==
    (a.x2 - a.x1) * (a.y2 - a.y1) + (b.x2 - b.x1) * (b.y2 - b.y1) - inter_area(a, b)

\* iou(a, b) >= threshold
iou_reaches(a, b, threshold) ==
    IF union_area(a, b) > 0
    THEN inter_area(a, b) * threshold.den >= threshold.num * union_area(a, b)
    ELSE 0 >= threshold.num

\* nms: iou(a, b) > threshold, the IoU being 0 when the union is empty
iou_exceeds(a, b, threshold) ==
    IF union_area(a, b) > 0
    THEN inter_area(a, b) * threshold.den > threshold.num * union_area(a, b)
    ELSE 0 > threshold.num

\* std::sort by descending confidence: the orders it may leave the vector
\* in (the sort is not stable)
sort_by_confidence(dets) ==
    {[i \in 1..Len(dets) |-> dets[o[i]]] : o \in
        {o \in Orders(1..Len(dets)) :
            \A i, j \in 1..Len(dets) : i < j => dets[o[i]].confidence >= dets[o[j]].confidence}}

\* nms: the loop over the sorted vector from position i on
RECURSIVE nms_loop(_, _, _, _, _)
nms_loop(dets, threshold, i, suppressed, result) ==
    IF i > Len(dets) THEN result
    ELSE IF i \in suppressed THEN nms_loop(dets, threshold, i + 1, suppressed, result)
    ELSE nms_loop(dets, threshold, i + 1,
                  suppressed \cup {j \in (i + 1)..Len(dets) :
                                      /\ j \notin suppressed
                                      /\ dets[i].class_id = dets[j].class_id
                                      /\ iou_exceeds(dets[i].bbox, dets[j].bbox, threshold)},
                  Append(result, dets[i]))

\* PostProcessor::nms on a sorted vector
nms(sorted, threshold) ==
    IF sorted = <<>> THEN <<>> ELSE nms_loop(sorted, threshold, 1, {}, <<>>)

InitPost ==
    /\ detections \in UNION {[1..n -> Detections] : n \in 0..MaxDets}
    /\ nms_in = detections
    /\ nms_threshold \in Thresholds
    /\ lastOp = NoOp
    /\ task_queue_ = BoundedQueue(1)
    /\ collectors = <<>>
    /\ LifeUnused
    /\ QueueUnused
    /\ CollectorUnused
    /\ EngineUnused
    /\ CacheUnused
    /\ ctx_of = <<>>
    /\ dup_ctxs = {}
    /\ lpc = <<>>
    /\ gpc = <<>>
    /\ saved = {}
    /\ rpc = <<>>
    /\ rRemoved = {}
    /\ has_ffmpeg = TRUE
    /\ streams_ = <<>>
    /\ thr = <<>>
    /\ feed = <<>>
    /\ faults = <<>>
    /\ mpc = <<>>
    /\ frame_skips = {}
    /\ hist = <<>>

\* nms(detections, threshold)
PNms ==
    /\ lastOp.op = "none"
    /\ \E sorted \in sort_by_confidence(detections) :
          detections' = nms(sorted, nms_threshold)
    /\ lastOp' = [op |-> "nms", who |-> 0, arg |-> Some(nms_threshold), ret |-> nullopt]
    /\ UNCHANGED <<nms_in, nms_threshold>>

NextPost == PNms

SpecPost ==
    InitPost /\ [][NextPost /\ UNCHANGED <<task_queue_, collectors, qvars, cvars, evars,
                                          kvars, svars, rvars, xvars, lvars, jvars>>]_vars

\* the positions of v whose element has the class id c
OfClass(v, c) == {i \in DOMAIN v : v[i].class_id = c}

\* how many elements of v equal d
Count(v, d) == Cardinality({i \in DOMAIN v : v[i] = d})

\* C31 as stated: nms with threshold 0 leaves at most one detection per
\* class id.
C31_Original ==
    (lastOp.op = "nms" /\ nms_threshold.num = 0) =>
        \A c \in {0, 1} : Cardinality(OfClass(detections, c)) <= 1

\* C31: nms with threshold 0 leaves detections of its input, sorted by
\* descending confidence, no two of one class with boxes of positive IoU;
\* every detection it drops has positive IoU with a detection it leaves, of
\* the same class and of no lower confidence.
C31_NmsZero ==
    (lastOp.op = "nms" /\ nms_threshold.num = 0) =>
        /\ \A d \in Detections : Count(detections, d) <= Count(nms_in, d)
        /\ \A i, j \in DOMAIN detections :
              i < j => /\ detections[i].confidence >= detections[j].confidence
                       /\ detections[i].class_id = detections[j].class_id =>
                            inter_area(detections[i].bbox, detections[j].bbox) = 0
        /\ \A d \in Detections :
              Count(detections, d) < Count(nms_in, d) =>
                  \E i \in DOMAIN detections :
                      /\ detections[i].class_id = d.class_id
                      /\ detections[i].confidence >= d.confidence
                      /\ inter_area(detections[i].bbox, d.bbox) > 0

\* nms with threshold 0 was given three detections of one class and has
\* left two of them, the third being dropped
C31_Witness ==
    /\ lastOp.op = "nms" /\ nms_threshold.num = 0
    /\ Len(nms_in) = 3 /\ Len(detections) = 2
    /\ \A i \in 1..3 : nms_in[i].class_id = 0

(***************************************************************************)
(* The stream manager's calls made by several threads at once: the locked  *)
(* sections under mutex_, the joins, and the StreamContext objects the     *)
(* calls and the map point to.  The map holds one id.                      *)
(***************************************************************************)
MaxCtxs == 2
MaxThreads == 3

LCallers == {1, 2}
LIds == {"cam1"}

NoCall == [op |-> "none", pc |-> "idle", pending |-> <<>>, seen |-> 0]

\* a context as add_stream leaves it, its handle referring to thread t
NewContext(t) ==
    [alive |-> TRUE, running |-> TRUE, stop_requested |-> FALSE, decode_thread |-> t]

\* a thread running decode_thread_func on the context at address o
DecodeThread(o, id) == [pc |-> "run", ctx |-> o, id |-> id]

Returned2(op, c, id, ret) == [op |-> op, who |-> c, arg |-> Some(id), ret |-> Some(ret)]

InitLife ==
    /\ mutex_ = 0
    /\ heap = <<>>
    /\ call = [c \in LCallers |-> NoCall]
    /\ streams_ = [id \in LIds |-> 0]
    /\ thr = <<>>
    /\ lastOp = NoOp
    /\ task_queue_ = BoundedQueue(1)
    /\ collectors = <<>>
    /\ QueueUnused
    /\ CollectorUnused
    /\ EngineUnused
    /\ CacheUnused
    /\ detections = <<>>
    /\ nms_in = <<>>
    /\ nms_threshold = <<>>
    /\ ctx_of = <<>>
    /\ dup_ctxs = {}
    /\ lpc = <<>>
    /\ gpc = <<>>
    /\ saved = {}
    /\ rpc = <<>>
    /\ rRemoved = {}
    /\ has_ffmpeg = TRUE
    /\ feed = <<>>
    /\ faults = <<>>
    /\ mpc = <<>>
    /\ frame_skips = {}
    /\ hist = <<>>

\* add_stream(id): the locked section
LAddStream(c, id) ==
    /\ call[c].pc = "idle" /\ mutex_ = 0
    /\ IF streams_[id] # 0
       THEN /\ lastOp' = Returned2("add_stream", c, id, FALSE)
            /\ UNCHANGED <<heap, thr, streams_>>
       ELSE /\ Len(heap) < MaxCtxs /\ Len(thr) < MaxThreads
            /\ heap' = Append(heap, NewContext(Len(thr) + 1))
            /\ thr' = Append(thr, DecodeThread(Len(heap) + 1, id))
            /\ streams_' = [streams_ EXCEPT ![id] = Len(heap) + 1]
            /\ lastOp' = Returned2("add_stream", c, id, TRUE)
    /\ UNCHANGED <<mutex_, call>>

\* remove_stream(id): the locked section; the context is moved out of the map
LRemoveStream(c, id) ==
    /\ call[c].pc = "idle" /\ mutex_ = 0
    /\ IF streams_[id] = 0
       THEN /\ lastOp' = Returned2("remove_stream", c, id, FALSE)
            /\ UNCHANGED <<heap, streams_, call>>
       ELSE LET o == streams_[id] IN
            /\ heap' = [heap EXCEPT ![o] = stop_stream_internal(@)]
            /\ streams_' = [streams_ EXCEPT ![id] = 0]
            /\ call' = [call EXCEPT ![c] = [op |-> "remove_stream", pc |-> "joinable",
                                            pending |-> <<o>>, seen |-> heap[o].decode_thread]]
            /\ UNCHANGED lastOp
    /\ UNCHANGED <<mutex_, thr>>

\* start_stream(id): the lock is taken for the whole call; a stream that is
\* not found or is running returns at once
LStartStream(c, id) ==
    /\ call[c].pc = "idle" /\ mutex_ = 0
    /\ IF streams_[id] = 0
       THEN /\ lastOp' = Returned2("start_stream", c, id, FALSE)
            /\ UNCHANGED <<mutex_, call>>
       ELSE IF heap[streams_[id]].running
       THEN /\ lastOp' = Returned2("start_stream", c, id, TRUE)
            /\ UNCHANGED <<mutex_, call>>
       ELSE /\ Len(thr) < MaxThreads
            /\ mutex_' = c
            /\ call' = [call EXCEPT ![c] = [op |-> "start_stream", pc |-> "joinable",
                                            pending |-> <<streams_[id]>>,
                                            seen |-> heap[streams_[id]].decode_thread]]
            /\ UNCHANGED lastOp
    /\ UNCHANGED <<heap, thr, streams_>>

\* stop_stream(id): the locked section; the context pointer is kept
LStopStream(c, id) ==
    /\ call[c].pc = "idle" /\ mutex_ = 0
    /\ IF streams_[id] = 0
       THEN /\ lastOp' = Returned2("stop_stream", c, id, FALSE)
            /\ UNCHANGED <<heap, call>>
       ELSE LET o == streams_[id] IN
            /\ heap' = [heap EXCEPT ![o] = stop_stream_internal(@)]
            /\ call' = [call EXCEPT ![c] = [op |-> "stop_stream", pc |-> "joinable",
                                            pending |-> <<o>>, seen |-> heap[o].decode_thread]]
            /\ UNCHANGED lastOp
    /\ UNCHANGED <<mutex_, thr, streams_>>

\* stop_all() and shutdown(): the locked section; the pointers of all
\* contexts in the map are kept
LStopAll(c, op) ==
    /\ call[c].pc = "idle" /\ mutex_ = 0
    /\ LET mapped == {id \in LIds : streams_[id] # 0} IN
       IF mapped = {}
       THEN /\ lastOp' = [op |-> op, who |-> c, arg |-> nullopt, ret |-> nullopt]
            /\ UNCHANGED <<heap, call>>
       ELSE /\ heap' = [o \in DOMAIN heap |->
                          IF \E id \in mapped : streams_[id] = o
                          THEN stop_stream_internal(heap[o]) ELSE heap[o]]
            /\ \E order \in Orders(mapped) :
                  call' = [call EXCEPT ![c] =
                              [op |-> op, pc |-> "joinable",
                               pending |-> [k \in DOMAIN order |-> streams_[order[k]]],
                               seen |-> heap[streams_[order[1]]].decode_thread]]
            /\ UNCHANGED lastOp
    /\ UNCHANGED <<mutex_, thr, streams_>>

\* what a call does when the join of its context is over: remove_stream
\* goes on to destroy the context, start_stream to start the new thread,
\* a stop call to its next context or to its return
AfterJoin(c) ==
    IF call[c].op = "remove_stream" THEN [call[c] EXCEPT !.pc = "destroy"]
    ELSE IF call[c].op = "start_stream" THEN [call[c] EXCEPT !.pc = "assign"]
    ELSE IF Len(call[c].pending) > 1
    THEN [call[c] EXCEPT !.pc = "joinable", !.pending = Tail(@)]
    ELSE NoCall

\* the return of a stop call whose last join is over
JoinReturns(c) ==
    IF call[c].op \in StopCalls /\ Len(call[c].pending) = 1
    THEN [op |-> call[c].op, who |-> c, arg |-> nullopt, ret |-> Some(TRUE)]
    ELSE lastOp

\* decode_thread.joinable() on the context the call points to.  On a
\* context that was destroyed the read is of freed memory: the call may
\* crash or go on with what the memory held.
LJoinable(c) ==
    /\ call[c].pc = "joinable"
    /\ LET o == Head(call[c].pending) IN
       \E crash \in {b \in BOOLEAN : b => ~heap[o].alive} :
          IF crash
          THEN /\ call' = [call EXCEPT ![c].pc = "crashed"]
               /\ UNCHANGED lastOp
          ELSE IF heap[o].decode_thread = 0
          THEN /\ call' = [call EXCEPT ![c] = AfterJoin(c)]
               /\ lastOp' = JoinReturns(c)
          ELSE /\ call' = [call EXCEPT ![c].pc = "join"]
               /\ UNCHANGED lastOp
    /\ UNCHANGED <<mutex_, heap, thr, streams_>>

\* decode_thread.join() returns: the thread the handle refers to has
\* exited and the handle is not joinable any more.  A handle that another
\* call has joined or re-assigned during the join is a data race on the
\* std::thread: the call may crash, return, or wait for the thread the
\* handle refers to now.
LJoinReturn(c) ==
    /\ call[c].pc = "join"
    /\ LET o == Head(call[c].pending)
           t == heap[o].decode_thread
       IN  \/ /\ t # 0 /\ thr[t].pc = "exited"
              /\ heap' = [heap EXCEPT ![o].decode_thread = 0]
              /\ call' = [call EXCEPT ![c] = AfterJoin(c)]
              /\ lastOp' = JoinReturns(c)
           \/ /\ t = 0
              /\ call' = [call EXCEPT ![c] = AfterJoin(c)]
              /\ lastOp' = JoinReturns(c)
              /\ UNCHANGED heap
           \/ /\ t # call[c].seen \/ ~heap[o].alive
              /\ call' = [call EXCEPT ![c].pc = "crashed"]
              /\ UNCHANGED <<heap, lastOp>>
    /\ UNCHANGED <<mutex_, thr, streams_>>

\* remove_stream: the context moved out of the map is destroyed at the
\* return (the cache and the persisted list are left out here)
LDestroy(c) ==
    /\ call[c].pc = "destroy"
    /\ heap' = [heap EXCEPT ![Head(call[c].pending)].alive = FALSE]
    /\ call' = [call EXCEPT ![c] = NoCall]
    /\ lastOp' = [op |-> "remove_stream", who |-> c, arg |-> nullopt, ret |-> Some(TRUE)]
    /\ UNCHANGED <<mutex_, thr, streams_>>

\* start_stream: the flags are reset, a new thread is assigned to the
\* handle, the lock is released
LStartAssign(c) ==
    /\ call[c].pc = "assign"
    /\ LET o == Head(call[c].pending) IN
        /\ heap' = [heap EXCEPT ![o].running = TRUE, ![o].stop_requested = FALSE,
                                ![o].decode_thread = Len(thr) + 1]
        /\ thr' = Append(thr, DecodeThread(o, CHOOSE id \in LIds : streams_[id] = o))
    /\ mutex_' = 0
    /\ call' = [call EXCEPT ![c] = NoCall]
    /\ lastOp' = [op |-> "start_stream", who |-> c, arg |-> nullopt, ret |-> Some(TRUE)]
    /\ UNCHANGED streams_

\* decode_thread_func: a loop test sees stop_requested
LThreadStop(t) ==
    /\ thr[t].pc = "run" /\ heap[thr[t].ctx].stop_requested
    /\ thr' = [thr EXCEPT ![t].pc = "finish"]
    /\ UNCHANGED <<mutex_, heap, call, streams_, lastOp>>

\* decode_thread_func: ctx->running = false
LThreadFinish(t) ==
    /\ thr[t].pc = "finish"
    /\ heap' = [heap EXCEPT ![thr[t].ctx].running = FALSE]
    /\ thr' = [thr EXCEPT ![t].pc = "return"]
    /\ UNCHANGED <<mutex_, call, streams_, lastOp>>

\* decode_thread_func returns
LThreadExit(t) ==
    /\ thr[t].pc = "return"
    /\ thr' = [thr EXCEPT ![t].pc = "exited"]
    /\ UNCHANGED <<mutex_, heap, call, streams_, lastOp>>

NextLife ==
    \/ \E c \in LCallers, id \in LIds : LAddStream(c, id)
    \/ \E c \in LCallers, id \in LIds : LRemoveStream(c, id)
    \/ \E c \in LCallers, id \in LIds : LStartStream(c, id)
    \/ \E c \in LCallers, id \in LIds : LStopStream(c, id)
    \/ \E c \in LCallers, op \in {"stop_all", "shutdown"} : LStopAll(c, op)
    \/ \E c \in LCallers : LJoinable(c)
    \/ \E c \in LCallers : LJoinReturn(c)
    \/ \E c \in LCallers : LDestroy(c)
    \/ \E c \in LCallers : LStartAssign(c)
    \/ \E t \in DOMAIN thr : LThreadStop(t)
    \/ \E t \in DOMAIN thr : LThreadFinish(t)
    \/ \E t \in DOMAIN thr : LThreadExit(t)

LifeOthers ==
    <<task_queue_, collectors, qvars, cvars, evars, kvars,
      has_ffmpeg, feed, faults, mpc, frame_skips, hist, rvars, xvars, pvars, jvars>>

(***************************************************************************)
(* SpecLife: two threads calling the manager while the pipeline threads    *)
(* run.                                                                    *)
(***************************************************************************)
SpecLife == InitLife /\ [][NextLife /\ UNCHANGED LifeOthers]_vars

\* the context a call that is at or in a join points to
JoinCtx(c) == Head(call[c].pending)

\* C34 as stated: no manager call waits in a thread join while it holds the
\* manager mutex.
C34_Original ==
    \A c \in LCallers :
        (mutex_ = c /\ call[c].pc = "join") =>
            LET t == heap[JoinCtx(c)].decode_thread IN t = 0 \/ thr[t].pc = "exited"

\* C35 as stated: at most one pipeline thread is live for a stream id.
C35_Original ==
    \A id \in LIds :
        Cardinality({t \in DOMAIN thr : thr[t].id = id /\ thr[t].pc # "exited"}) <= 1

\* C38 as stated: the context a stop_stream, stop_all or shutdown call
\* captured under the mutex is alive when the call tests and joins its
\* thread outside the mutex.
C38_Original ==
    \A c \in LCallers :
        (call[c].op \in StopCalls /\ call[c].pc \in {"joinable", "join"}) =>
            heap[JoinCtx(c)].alive

\* C39 as stated: while a stop call is in the join of a context's thread
\* handle no start_stream call is in a join of that handle or about to
\* re-assign it, and the handle refers to the thread the stop call
\* signalled.
C39_Original ==
    \A c \in LCallers :
        (call[c].op \in StopCalls /\ call[c].pc = "join") =>
            /\ \A d \in LCallers \ {c} :
                  ~(/\ call[d].op = "start_stream" /\ call[d].pc \in {"join", "assign"}
                    /\ JoinCtx(d) = JoinCtx(c))
            /\ heap[JoinCtx(c)].decode_thread \in {0, call[c].seen}


(***************************************************************************)
(* SpecCacheLocks: the cache called from two threads at once.  map_mutex_  *)
(* and the ring mutexes are owners; a critical section that takes no other *)
(* lock is one step (taken when its mutex is free), and a section that     *)
(* takes a ring mutex inside map_mutex_ is a step per lock operation.      *)
(***************************************************************************)
MaxLockAdds == 3
LockCallers == {1, 2}
LockTimestamps == {1000, 3000}
LockInputs == {CachedFrame(s, ts, 1048576) : s \in Streams, ts \in LockTimestamps}
QueryOps == {"get_frame", "get_nearest_frame", "get_latest_frame", "stream_frame_count"}

JIdle == [todo |-> {}, cur |-> "", oldest_cam |-> "", oldest_ts |-> INT64_MAX]

InitCacheLocks ==
    /\ duration_sec_ = 1
    /\ max_memory_bytes_ = max_memory_bytes(1)
    /\ caches_ = [s \in Streams |-> NoRing]
    /\ rings = [r \in RingIds |-> StreamCache]
    /\ total_memory_ = 0
    /\ cpc = [t \in LockCallers |-> "idle"]
    /\ cframe = [t \in LockCallers |-> nullopt]
    /\ cref = [t \in LockCallers |-> NoRing]
    /\ cevict = [t \in LockCallers |-> 0]
    /\ cAdds = 0
    /\ inserted = [s \in Streams |-> <<>>]
    /\ mono = [s \in Streams |-> TRUE]
    /\ map_mutex_ = 0
    /\ ring_mutex = [r \in RingIds |-> 0]
    /\ jst = [t \in LockCallers |-> JIdle]
    /\ task_queue_ = BoundedQueue(1)
    /\ collectors = <<>>
    /\ QueueUnused
    /\ CollectorUnused
    /\ EngineUnused
    /\ StreamUnused
    /\ lastOp = NoOp

\* size_t, narrowed: the global counter is std::atomic<size_t>, and its
\* arithmetic is modulo SIZE_MAX + 1 (the counter goes below zero when a
\* frame is debited before add_frame has credited it)
SIZE_MAX == 16777215
size_t(v) == v % (SIZE_MAX + 1)

\* std::lock_guard's constructor on a ring mutex returns
lock_ring(rm, r, t) == [rm EXCEPT ![r] = t]

\* std::lock_guard's destructor on a ring mutex
unlock_ring_kept(rm, r) == rm
unlock_ring(rm, r) == [rm EXCEPT ![r] = 0]

\* the rings held by caller t
HeldBy(t) == {r \in RingIds : ring_mutex[r] = t}

\* add_stream(cam_id), under map_mutex_
JAddStream(t, s) ==
    /\ cpc[t] = "idle" /\ map_mutex_ = 0
    /\ caches_[s] = NoRing
    /\ caches_' = [caches_ EXCEPT ![s] = NewRing]
    /\ UNCHANGED <<duration_sec_, max_memory_bytes_, rings, total_memory_,
                   cpc, cframe, cref, cevict, cAdds, inserted, mono, lastOp, jvars>>

\* remove_stream(cam_id), under map_mutex_: the ring's counter is read and
\* debited, the map's reference erased
JRemoveStream(t, s) ==
    /\ cpc[t] = "idle" /\ map_mutex_ = 0
    /\ caches_[s] # NoRing
    /\ total_memory_' = size_t(remove_stream_total(total_memory_, rings[caches_[s]]))
    /\ caches_' = [caches_ EXCEPT ![s] = NoRing]
    /\ rings' = IF \E u \in LockCallers : cref[u] = caches_[s]
                THEN rings ELSE [rings EXCEPT ![caches_[s]] = StreamCache]
    /\ UNCHANGED <<duration_sec_, max_memory_bytes_, cpc, cframe, cref, cevict, cAdds,
                   inserted, mono, lastOp, jvars>>

\* add_frame(frame): get_or_create_cache(frame.cam_id), under map_mutex_
JAddBegin(t, frame) ==
    /\ cpc[t] = "idle" /\ map_mutex_ = 0
    /\ cAdds < MaxLockAdds
    /\ cAdds' = cAdds + 1
    /\ LET r == IF caches_[frame.cam_id] = NoRing THEN NewRing ELSE caches_[frame.cam_id] IN
        /\ caches_' = [caches_ EXCEPT ![frame.cam_id] = r]
        /\ cref' = [cref EXCEPT ![t] = r]
    /\ cframe' = [cframe EXCEPT ![t] = Some(frame)]
    /\ cpc' = [cpc EXCEPT ![t] = "got"]
    /\ UNCHANGED <<duration_sec_, max_memory_bytes_, rings, total_memory_, cevict,
                   inserted, mono, lastOp, jvars>>

\* add_frame: lock_guard lock(cache->mutex)
JAddLock(t) ==
    /\ cpc[t] = "got"
    /\ ring_mutex[cref[t]] = 0
    /\ ring_mutex' = lock_ring(ring_mutex, cref[t], t)
    /\ cpc' = [cpc EXCEPT ![t] = "locked"]
    /\ UNCHANGED <<duration_sec_, max_memory_bytes_, caches_, rings, total_memory_, cframe,
                   cref, cevict, cAdds, inserted, mono, lastOp, map_mutex_, jst>>

\* add_frame: evict_expired, push_back, memory_bytes += frame_size, and the
\* end of the locked block
JAddSection(t) ==
    /\ cpc[t] = "locked"
    /\ LET frame == value(cframe[t])
           e == evict_expired(rings[cref[t]], total_memory_, duration_sec_, frame.timestamp_ms)
       IN  /\ rings' = [rings EXCEPT ![cref[t]] =
                          [frames |-> push_back(e.cache.frames, frame),
                           memory_bytes |-> e.cache.memory_bytes + frame.jpeg_size]]
           /\ total_memory_' = size_t(e.total)
    /\ ring_mutex' = unlock_ring(ring_mutex, cref[t])
    /\ cpc' = [cpc EXCEPT ![t] = "pushed"]
    /\ UNCHANGED <<duration_sec_, max_memory_bytes_, caches_, cframe, cref, cevict, cAdds,
                   inserted, mono, lastOp, map_mutex_, jst>>

\* add_frame: total_memory_ += frame_size
JAddTotal(t) ==
    /\ cpc[t] = "pushed"
    /\ total_memory_' = size_t(total_memory_ + value(cframe[t]).jpeg_size)
    /\ cpc' = [cpc EXCEPT ![t] = "check"]
    /\ UNCHANGED <<duration_sec_, max_memory_bytes_, caches_, rings, cframe, cref, cevict,
                   cAdds, inserted, mono, lastOp, jvars>>

\* a cache call returns: its reference to the StreamCache is released
JReturn(t) ==
    /\ cpc' = [cpc EXCEPT ![t] = "idle"]
    /\ rings' = Released(rings, cref[t], t)
    /\ cref' = [cref EXCEPT ![t] = NoRing]
    /\ cevict' = [cevict EXCEPT ![t] = 0]
    /\ cframe' = [cframe EXCEPT ![t] = nullopt]
    /\ jst' = [jst EXCEPT ![t] = JIdle]

\* add_frame: the test of the global counter; within budget the call returns
JAddCheck(t) ==
    /\ cpc[t] = "check"
    /\ IF max_memory_bytes_ > 0 /\ total_memory_ > max_memory_bytes_
       THEN /\ cpc' = [cpc EXCEPT ![t] = "evict_lock"]
            /\ UNCHANGED <<rings, cframe, cref, cevict, jst>>
       ELSE JReturn(t)
    /\ UNCHANGED <<duration_sec_, max_memory_bytes_, caches_, total_memory_,
                   cAdds, inserted, mono, lastOp, map_mutex_, ring_mutex>>

\* evict_global_memory: lock_guard map_lock(map_mutex_)
JEvictLock(t) ==
    /\ cpc[t] = "evict_lock"
    /\ map_mutex_ = 0
    /\ map_mutex_' = t
    /\ cpc' = [cpc EXCEPT ![t] = "loop"]
    /\ UNCHANGED <<duration_sec_, max_memory_bytes_, caches_, rings, total_memory_, cframe,
                   cref, cevict, cAdds, inserted, mono, lastOp, ring_mutex, jst>>

\* evict_global_memory: the loop's test; the scan starts over the map's
\* entries, or the function returns and add_frame with it
JEvictTest(t) ==
    /\ cpc[t] = "loop"
    /\ IF total_memory_ > max_memory_bytes_
       THEN /\ jst' = [jst EXCEPT ![t].todo = Registered, ![t].oldest_cam = "",
                                  ![t].oldest_ts = INT64_MAX]
            /\ cpc' = [cpc EXCEPT ![t] = "scan"]
            /\ UNCHANGED <<rings, cframe, cref, cevict, map_mutex_>>
       ELSE /\ map_mutex_' = 0
            /\ JReturn(t)
    /\ UNCHANGED <<duration_sec_, max_memory_bytes_, caches_, total_memory_,
                   cAdds, inserted, mono, lastOp, ring_mutex>>

\* the scan and total_frames: lock_guard cache_lock(cache->mutex) for the
\* next entry of the map (the unordered_map's order is any)
JScanLock(t) ==
    /\ cpc[t] \in {"scan", "count"}
    /\ \E s \in jst[t].todo :
        /\ ring_mutex[caches_[s]] = 0
        /\ ring_mutex' = lock_ring(ring_mutex, caches_[s], t)
        /\ jst' = [jst EXCEPT ![t].cur = s]
    /\ cpc' = [cpc EXCEPT ![t] = IF cpc[t] = "scan" THEN "scan_locked" ELSE "count_locked"]
    /\ UNCHANGED <<duration_sec_, max_memory_bytes_, caches_, rings, total_memory_, cframe,
                   cref, cevict, cAdds, inserted, mono, lastOp, map_mutex_>>

\* the scan: the entry's head is compared with the oldest so far
JScanRead(t) ==
    /\ cpc[t] = "scan_locked"
    /\ LET s == jst[t].cur
           frames == rings[caches_[s]].frames
           older == Len(frames) > 0 /\ Head(frames).timestamp_ms < jst[t].oldest_ts
       IN  jst' = [jst EXCEPT ![t].todo = @ \ {s}, ![t].cur = "",
                              ![t].oldest_cam = IF older THEN s ELSE @,
                              ![t].oldest_ts = IF older THEN Head(frames).timestamp_ms ELSE @]
    /\ ring_mutex' = unlock_ring(ring_mutex, caches_[jst[t].cur])
    /\ cpc' = [cpc EXCEPT ![t] = "scan"]
    /\ UNCHANGED <<duration_sec_, max_memory_bytes_, caches_, rings, total_memory_, cframe,
                   cref, cevict, cAdds, inserted, mono, lastOp, map_mutex_>>

\* the scan is over: no frame found ends the loop and the call, else the
\* chosen ring is to be locked
JScanEnd(t) ==
    /\ cpc[t] = "scan" /\ jst[t].todo = {}
    /\ IF jst[t].oldest_cam = ""
       THEN /\ map_mutex_' = 0
            /\ JReturn(t)
       ELSE /\ cpc' = [cpc EXCEPT ![t] = "pop_lock"]
            /\ UNCHANGED <<rings, cframe, cref, cevict, map_mutex_, jst>>
    /\ UNCHANGED <<duration_sec_, max_memory_bytes_, caches_, total_memory_,
                   cAdds, inserted, mono, lastOp, ring_mutex>>

\* evict_global_memory: lock_guard cache_lock(cache->mutex) on caches_[oldest_cam]
JPopLock(t) ==
    /\ cpc[t] = "pop_lock"
    /\ ring_mutex[caches_[jst[t].oldest_cam]] = 0
    /\ ring_mutex' = lock_ring(ring_mutex, caches_[jst[t].oldest_cam], t)
    /\ cpc' = [cpc EXCEPT ![t] = "pop_locked"]
    /\ UNCHANGED <<duration_sec_, max_memory_bytes_, caches_, rings, total_memory_, cframe,
                   cref, cevict, cAdds, inserted, mono, lastOp, map_mutex_, jst>>

\* evict_global_memory: the chosen ring's head is removed if there is one
\* (a ring that had a head at the scan still has one: frames leave a ring in
\* add_frame's locked block, which ends with a push_back, or here)
JPop(t) ==
    /\ cpc[t] = "pop_locked"
    /\ LET r == caches_[jst[t].oldest_cam] IN
        /\ IF Len(rings[r].frames) > 0
           THEN LET e == evict_front(rings[r], total_memory_) IN
                /\ rings' = [rings EXCEPT ![r] = e.cache]
                /\ total_memory_' = size_t(e.total)
                /\ cevict' = [cevict EXCEPT ![t] = @ + 1]
           ELSE UNCHANGED <<rings, total_memory_, cevict>>
        /\ ring_mutex' = unlock_ring(ring_mutex, r)
    /\ cpc' = [cpc EXCEPT ![t] = "loop"]
    /\ UNCHANGED <<duration_sec_, max_memory_bytes_, caches_, cframe, cref, cAdds,
                   inserted, mono, lastOp, map_mutex_, jst>>

\* get_frame, get_nearest_frame, get_latest_frame, stream_frame_count:
\* get_cache(cam_id) under map_mutex_; an unknown id returns at once
JQueryBegin(t, op, s) ==
    /\ cpc[t] = "idle" /\ map_mutex_ = 0
    /\ IF caches_[s] = NoRing
       THEN UNCHANGED <<cpc, cref>>
       ELSE /\ cref' = [cref EXCEPT ![t] = caches_[s]]
            /\ cpc' = [cpc EXCEPT ![t] = "query"]
    /\ UNCHANGED <<duration_sec_, max_memory_bytes_, caches_, rings, total_memory_, cframe,
                   cevict, cAdds, inserted, mono, lastOp, jvars>>

\* the queries: lock_guard lock(cache->mutex)
JQueryLock(t) ==
    /\ cpc[t] = "query"
    /\ ring_mutex[cref[t]] = 0
    /\ ring_mutex' = lock_ring(ring_mutex, cref[t], t)
    /\ cpc' = [cpc EXCEPT ![t] = "query_locked"]
    /\ UNCHANGED <<duration_sec_, max_memory_bytes_, caches_, rings, total_memory_, cframe,
                   cref, cevict, cAdds, inserted, mono, lastOp, map_mutex_, jst>>

\* the queries: the ring is read and the call returns
JQueryRead(t) ==
    /\ cpc[t] = "query_locked"
    /\ ring_mutex' = unlock_ring(ring_mutex, cref[t])
    /\ JReturn(t)
    /\ UNCHANGED <<duration_sec_, max_memory_bytes_, caches_, total_memory_,
                   cAdds, inserted, mono, lastOp, map_mutex_>>

\* total_frames(): lock_guard lock(map_mutex_)
JTotalBegin(t) ==
    /\ cpc[t] = "idle" /\ map_mutex_ = 0
    /\ map_mutex_' = t
    /\ jst' = [jst EXCEPT ![t].todo = Registered]
    /\ cpc' = [cpc EXCEPT ![t] = "count"]
    /\ UNCHANGED <<duration_sec_, max_memory_bytes_, caches_, rings, total_memory_, cframe,
                   cref, cevict, cAdds, inserted, mono, lastOp, ring_mutex>>

\* total_frames: the entry's frames are counted
JTotalRead(t) ==
    /\ cpc[t] = "count_locked"
    /\ jst' = [jst EXCEPT ![t].todo = @ \ {jst[t].cur}, ![t].cur = ""]
    /\ ring_mutex' = unlock_ring(ring_mutex, caches_[jst[t].cur])
    /\ cpc' = [cpc EXCEPT ![t] = "count"]
    /\ UNCHANGED <<duration_sec_, max_memory_bytes_, caches_, rings, total_memory_, cframe,
                   cref, cevict, cAdds, inserted, mono, lastOp, map_mutex_>>

\* total_frames returns
JTotalEnd(t) ==
    /\ cpc[t] = "count" /\ jst[t].todo = {}
    /\ map_mutex_' = 0
    /\ JReturn(t)
    /\ UNCHANGED <<duration_sec_, max_memory_bytes_, caches_, total_memory_,
                   cAdds, inserted, mono, lastOp, ring_mutex>>

\* a step of the call caller t is in
Continue(t) ==
    \/ JAddLock(t)
    \/ JAddSection(t)
    \/ JAddTotal(t)
    \/ JAddCheck(t)
    \/ JEvictLock(t)
    \/ JEvictTest(t)
    \/ JScanLock(t)
    \/ JScanRead(t)
    \/ JScanEnd(t)
    \/ JPopLock(t)
    \/ JPop(t)
    \/ JQueryLock(t)
    \/ JQueryRead(t)
    \/ JTotalRead(t)
    \/ JTotalEnd(t)

NextCacheLocks ==
    \/ \E t \in LockCallers, s \in Streams : JAddStream(t, s)
    \/ \E t \in LockCallers, s \in Streams : JRemoveStream(t, s)
    \/ \E t \in LockCallers, frame \in LockInputs : JAddBegin(t, frame)
    \/ \E t \in LockCallers, op \in QueryOps, s \in Streams : JQueryBegin(t, op, s)
    \/ \E t \in LockCallers : JTotalBegin(t)
    \/ \E t \in LockCallers : Continue(t)

LocksOthers == <<task_queue_, collectors, qvars, cvars, evars, svars, rvars, xvars, pvars, lvars>>

SpecCacheLocks == InitCacheLocks /\ [][NextCacheLocks /\ UNCHANGED LocksOthers]_vars

\* the JPEG sizes of the frames reachable through the map's entries ss
RECURSIVE SumReachable(_)
SumReachable(ss) ==
    IF ss = {} THEN 0
    ELSE LET s == CHOOSE x \in ss : TRUE IN SumSizes(Ring(s).frames) + SumReachable(ss \ {s})

\* caller t's eviction removes a frame in this step
Pops(t) == cpc[t] = "pop_locked" /\ cpc'[t] = "loop" /\ rings' # rings

\* C36 as stated: global eviction removes only a frame that is, at that
\* moment, the head of a ring whose head has the minimum timestamp over the
\* heads of all non-empty rings, and removes none once the global counter is
\* within the budget.
C36_Original ==
    [][\A t \in LockCallers :
          Pops(t) => /\ jst[t].oldest_cam \in OldestCams
                     /\ total_memory_ > max_memory_bytes_]_vars

\* C37 as stated: whatever the interleaving of add_frame, remove_stream and
\* the other cache calls, once every call has returned the global byte
\* counter is the sum of the JPEG sizes of the frames reachable through the
\* map.
C37_Original ==
    AllIdle => total_memory_ = SumReachable(Registered)

\* C40: no interleaving of cache operations deadlocks: while a call is in
\* progress some call in progress can take its next step; a caller about to
\* wait for map_mutex_ holds no ring mutex, a caller holds one ring mutex at
\* most, and map_mutex_ is never acquired by a caller that holds a ring
\* mutex (the locks nest in the order map, then ring).
C40_NoDeadlock ==
    /\ []((\E t \in LockCallers : cpc[t] # "idle") =>
            \E t \in LockCallers : cpc[t] # "idle" /\ ENABLED Continue(t))
    /\ [](\A t \in LockCallers :
            /\ cpc[t] \in {"idle", "evict_lock"} => HeldBy(t) = {}
            /\ Cardinality(HeldBy(t)) <= 1)
    /\ [][\A t \in LockCallers :
            (map_mutex_' = t /\ map_mutex_ # t) => HeldBy(t) = {}]_vars

\* a caller inside evict_global_memory holds map_mutex_ and waits for the
\* mutex of the ring it chose, held by a caller inside add_frame's locked
\* block
C40_Witness ==
    \E t, u \in LockCallers :
        /\ map_mutex_ = t /\ cpc[t] = "pop_lock"
        /\ cpc[u] = "locked"
        /\ ring_mutex[caches_[jst[t].oldest_cam]] = u

====
